---- MODULE Spec2Model ----
(***************************************************************************)
(* pow-mongodb-fixtures: the promise-based Loader of src/src/index.js      *)
(* (lines 1-402).  One loader instance, its memoized connection, the       *)
(* database it writes to, and the load / clear / clearAndLoad /            *)
(* clearAllAndLoad calls issued on it.  Every asynchronous completion      *)
(* (stat, open, collections listing, remove, modifier, insert) is a        *)
(* separate action, so the interleavings bluebird allows are explored.     *)
(* Spec is the loader with modifiers and inline or single-file fixtures,   *)
(* SpecResolve the loader called with directory and malformed inputs,      *)
(* SpecClear the clear operation, of this Loader and of the callback-based *)
(* Loader of the same file (lines 404-655), SpecConnect the six operations *)
(* called without waiting for one another, SpecLive the calls under the    *)
(* assumption that every request is answered, SpecCallback clearAndLoad of *)
(* the callback-based Loader, SpecSkin load of the mongoskin Loader        *)
(* (src/index.js), SpecSkinLive the same under the assumption that every   *)
(* request is answered, SpecObjectId the createObjectId helper, SpecAuth   *)
(* a loader constructed with credentials, SpecOverlap clearAndLoad calls   *)
(* that overlap.                                                           *)
(***************************************************************************)
EXTENDS Naturals, Integers, Sequences, FiniteSets, TLC

(* ---------------------------------------------------------------------- *)
(* Bounds                                                                  *)
(* ---------------------------------------------------------------------- *)
MaxCalls == 2        \* calls started on the loader in one behaviour
MaxOverlap == 2      \* call slots (calls that may be in flight together)
MaxModifiers == 2    \* modifiers registered with addModifier
MaxOverlapCalls == 3 \* calls started in one behaviour in which calls overlap

CallIds == 1..MaxOverlap

(* ---------------------------------------------------------------------- *)
(* Collection names are strings; a string is a sequence of characters.    *)
(* ---------------------------------------------------------------------- *)
SystemPrefix == <<"s", "y", "s", "t", "e", "m", ".">>
Archer == <<"a">>
Southpark == <<"b">>
SystemJs == SystemPrefix \o <<"j", "s">>
Names == {Archer, Southpark, SystemJs}

\* _.startsWith(string, target)
StartsWith(s, p) == Len(s) >= Len(p) /\ SubSeq(s, 1, Len(p)) = p

\* every enumeration (listing order) of a finite set
Enumerations(S) ==
    {s \in [1..Cardinality(S) -> S] : \A x, y \in 1..Cardinality(S) : s[x] = s[y] => x = y}

SeqToSet(s) == {s[k] : k \in 1..Len(s)}

(* ---------------------------------------------------------------------- *)
(* Documents.  A document is the sequence of its base value followed by   *)
(* the marks of the modifiers that were applied to it, in order.          *)
(* ---------------------------------------------------------------------- *)
ModifierFns == {"m1", "m2", "m3"}

\* what modifier m returns for (collectionName, document)
Modify(m, c, d) == Append(d, m)

OldDoc(c) == <<"old", c>>
Kyle == <<"Kyle">>
Stan == <<"Stan">>

(* ---------------------------------------------------------------------- *)
(* Fixture inputs.  A FixtureSet is a JS object: an insertion-ordered     *)
(* list of [name, data] entries with unique names.  data is an array      *)
(* (kind "array") or a keyed mapping of documents (kind "object").        *)
(* ---------------------------------------------------------------------- *)
Arr(items) == [kind |-> "array", items |-> items, entries |-> <<>>]
Obj(entries) == [kind |-> "object", items |-> <<>>, entries |-> entries]
Entry(n, d) == [name |-> n, data |-> d]

EmptySet == <<>>
SouthparkOnly == <<Entry(Southpark, Arr(<<Kyle>>))>>
SouthparkStan == <<Entry(Southpark, Arr(<<Stan>>))>>
BothColls == <<Entry(Archer, Arr(<<Kyle, Stan>>)), Entry(Southpark, Arr(<<Stan>>))>>
KeyedArcher == <<Entry(Archer, Obj(<<[key |-> "k1", val |-> Stan], [key |-> "k2", val |-> Kyle]>>))>>
WithSystem == <<Entry(SystemJs, Arr(<<Kyle>>)), Entry(Archer, Arr(<<Stan>>))>>

Cartman == <<"Cartman">>

\* nodes of the filesystem: what fs.stat says of a path (type), what
\* require returns for it (shape of the exported value and, for an object,
\* its own entries), what fs.readdir lists in it (children)
Missing == [type |-> "missing", shape |-> "none", exports |-> <<>>, children |-> <<>>]
File(F) == [type |-> "file", shape |-> "object", exports |-> F, children |-> <<>>]
\* module.exports = 5: a number has no own enumerable keys
NumberFile == [type |-> "file", shape |-> "number", exports |-> <<>>, children |-> <<>>]
Dir(children) == [type |-> "dir", shape |-> "none", exports |-> <<>>, children |-> children]

\* a directory of two fixture files that both export southpark, and a
\* subdirectory
FixturesDir ==
    Dir([n \in {"a.js", "b.js", "sub"} |->
            CASE n = "a.js" -> File(<<Entry(Southpark, Arr(<<Kyle>>)),
                                     Entry(Archer, Obj(<<[key |-> "k1", val |-> Cartman]>>))>>)
              [] n = "b.js" -> File(<<Entry(Southpark, Arr(<<Stan>>))>>)
              [] OTHER -> Dir(<<>>)])

\* a directory of two fixture files that both export southpark
SharedDir ==
    Dir([n \in {"a.js", "b.js"} |->
            IF n = "a.js" THEN File(<<Entry(Southpark, Arr(<<Kyle>>))>>)
            ELSE File(<<Entry(Southpark, Arr(<<Stan>>))>>)])

\* a directory without entries
EmptyDir == Dir(<<>>)

\* the filesystem seen by fs.stat / fs.readdir / require
FileSystem ==
    [p \in {"missing", "southpark2.js", "number.js", "fixtures", "shared", "empty"} |->
        CASE p = "southpark2.js" -> File(<<Entry(Southpark, Arr(<<Stan, Kyle>>))>>)
          [] p = "number.js" -> NumberFile
          [] p = "fixtures" -> FixturesDir
          [] p = "shared" -> SharedDir
          [] p = "empty" -> EmptyDir
          [] OTHER -> Missing]

ObjectInput(F) == [kind |-> "object", data |-> F, path |-> ""]
NumberInput == [kind |-> "number", data |-> <<>>, path |-> ""]
BooleanInput == [kind |-> "boolean", data |-> <<>>, path |-> ""]
UndefinedInput == [kind |-> "undefined", data |-> <<>>, path |-> ""]
\* null: _.keys(null) is [], so it has no entries
NullInput == [kind |-> "null", data |-> <<>>, path |-> ""]
PathInput(p) == [kind |-> "string", data |-> <<>>, path |-> p]
NoInput == [kind |-> "none", data |-> <<>>, path |-> ""]

FixtureInputs ==
    {ObjectInput(F) : F \in {EmptySet, SouthparkOnly, BothColls, KeyedArcher, WithSystem}}
        \cup {NumberInput} \cup {PathInput(p) : p \in {"missing", "southpark2.js"}}

\* inputs that exercise the resolver: a directory, a file that exports a
\* number, and the values that are neither a mapping nor a string
ResolverInputs ==
    {PathInput("fixtures"), PathInput("number.js"),
     NullInput, NumberInput, BooleanInput, UndefinedInput}

\* _.keys(data)
Keys(F) == [k \in 1..Len(F) |-> F[k].name]
KeySet(F) == {F[k].name : k \in 1..Len(F)}
\* data[collectionName]
DataOf(F, c) == F[CHOOSE k \in 1..Len(F) : F[k].name = c].data
\* mutant: the keys are taken for the documents
ValuesAreKeys(entries) == [k \in 1..Len(entries) |-> <<entries[k].key>>]

\* _.values(object)
Values(entries) == [k \in 1..Len(entries) |-> entries[k].val]

(* ---------------------------------------------------------------------- *)
(* The collectionNames argument of clear: absent, a string or an array    *)
(* ---------------------------------------------------------------------- *)
ClearNoArg == [kind |-> "none", str |-> <<>>, list |-> <<>>]
ClearString(c) == [kind |-> "string", str |-> c, list |-> <<>>]
ClearList(l) == [kind |-> "array", str |-> <<>>, list |-> l]

ClearArgs ==
    {ClearNoArg, ClearString(Archer), ClearString(Southpark), ClearString(SystemJs),
     ClearList(<<Archer, Southpark>>), ClearList(<<>>)}

\* collectionNames == null
NoNames(arg) == arg.kind = "none"
\* a string is wrapped in an array
NameList(arg) == IF arg.kind = "string" THEN <<arg.str>> ELSE arg.list

(* ---------------------------------------------------------------------- *)
(* Errors and outcomes                                                     *)
(* ---------------------------------------------------------------------- *)
Err(type, coll, idx, mod) == [type |-> type, coll |-> coll, idx |-> idx, mod |-> mod]
NoErr == Err("none", <<>>, 0, "")
ResolveErr(why) == Err(why, <<>>, 0, "")
\* what this.client is rejected with, by db.open or by db.authenticate
ConnectErr == Err("connect", <<>>, 0, "")
RemoveErr(c) == Err("remove", c, 0, "")
ModifierErr(c, j, m) == Err("modifier", c, j, m)
InsertErr(c) == Err("insert", c, 0, "")
\* new Error('No connection found!')
NoConnectionErr == Err("no connection", <<>>, 0, "")
\* a request made on a connection that was closed
ClosedErr == Err("closed", <<>>, 0, "")

Pending == [st |-> "pending", err |-> NoErr]
Fulfilled == [st |-> "ok", err |-> NoErr]
Rejected(e) == [st |-> "err", err |-> e]

VARIABLES
    docs,        \* docs[c]: the documents stored in collection c, in insertion order
    exist,       \* the collections db.collections() lists
    client,      \* this.client: "none", "pending" (db.open requested),
                 \* "authenticating", "open", "failed", "closed"
    opens,       \* number of db.open() requests issued
    modifiers,   \* this.modifiers
    calls,       \* calls[i]: the call running in slot i
    started,     \* number of calls started so far
    cleared,     \* this.clearedCollections of the mongoskin Loader (src/index.js)
    objects,     \* objects[r]: the hex string of the ObjectID instance r
    options,     \* this.options: the user the loader was constructed with
    authenticated \* db.authenticateAsync has succeeded on the connection

vars == <<docs, exist, client, opens, modifiers, calls, started, cleared, objects,
          options, authenticated>>

(* ---------------------------------------------------------------------- *)
(* fixturesLoader: resolve a fixture input to a FixtureSet                 *)
(* ---------------------------------------------------------------------- *)
Resolution(ok, data, err) == [ok |-> ok, data |-> data, err |-> err]

\* _fileToObject(file): require(file)
FileToObject(p) == Resolution(TRUE, FileSystem[p].exports, NoErr)

\* typeof fixtures
TypeOf(input) == IF input.kind = "null" THEN "object" ELSE input.kind

fixturesLoader(input) ==
    IF TypeOf(input) = "object" THEN Resolution(TRUE, input.data, NoErr)
    ELSE IF TypeOf(input) # "string" THEN Resolution(FALSE, <<>>, ResolveErr("unsupported"))
    ELSE IF FileSystem[input.path].type = "missing" THEN Resolution(FALSE, <<>>, ResolveErr("enoent"))
    ELSE FileToObject(input.path)

\* the path names a directory: stats.isDirectory()
IsDirectory(input) == input.kind = "string" /\ FileSystem[input.path].type = "dir"

(* ---------------------------------------------------------------------- *)
(* The state of one call                                                   *)
(* ---------------------------------------------------------------------- *)
NoItems == [c \in Names |-> <<>>]

IdleCall ==
    [op |-> "none", input |-> NoInput, pc |-> "idle", outcome |-> Pending,
     resolution |-> "none",      \* "none", "ok", "err": result of fixturesLoader
     data |-> <<>>,              \* the resolved FixtureSet
     beforeDocs |-> NoItems,     \* the database when the call started
     beforeExist |-> {},
     beforeOpens |-> 0,          \* db.open() requests issued before the call
     beforeClient |-> "none",    \* this.client when the call was made
     seq |-> 0,                  \* the call is the seq-th made on the loader
     inFlight |-> {},            \* the calls (seq) not yet settled when it was made
     allNames |-> FALSE,         \* clear(): collectionNames == null
     names |-> {},               \* clear(collectionNames)
     listed |-> FALSE,           \* db.collections() has answered
     targets |-> <<>>,           \* collections the clear phase removes, in order
     ridx |-> 0,                 \* index in targets of the outstanding remove
     removeIssued |-> {}, removeOK |-> {}, removeFailed |-> {},
     cidx |-> 0,                 \* index in Keys(data) of the collection being loaded
     stepStarted |-> {},         \* collections whose modify+insert step began
     chain |-> NoItems,          \* chain[c][j]: the modifier chain of item j of c
     doneOrder |-> NoItems,      \* doneOrder[c]: the items of c, in the order their chains finished
     insertIssued |-> {}, insertOK |-> {}, insertFailed |-> {},
     batch |-> NoItems,          \* batch[c]: the array handed to insert
     inserts |-> [c \in Names |-> 0],   \* inserts[c]: inserts issued on c
     listing |-> <<>>,           \* what fs.readdir returned, in its order
     fileObjects |-> <<>>,       \* fileObjects[k]: what entry k of listing resolved to
     statDone |-> {},            \* entries of listing whose stat has answered
     statOrder |-> <<>>,         \* the same entries, in the order they answered
     arg |-> ClearNoArg,         \* the collectionNames argument of clear
     dropPending |-> {},         \* callback Loader: dropCollection requests outstanding
     dropped |-> {},             \* callback Loader: collections dropped
     closeIssued |-> FALSE,      \* db.close() was requested
     insertPending |-> {},       \* callback Loader: inserts outstanding
     loadErr |-> NoErr,          \* callback Loader: what load passed to its callback
     jobs |-> <<>>,              \* mongoskin Loader: the insertCollection invocations
     units |-> <<>>,             \* mongoskin Loader: total/done of each loadObject
     callbacks |-> <<>>,         \* mongoskin Loader: what callback was invoked with
     isDir |-> FALSE,            \* mongoskin Loader: load was given a directory
     dirTotal |-> 0,             \* mongoskin Loader: total of loadDir
     dirDone |-> 0,              \* mongoskin Loader: done of loadDir
     idArg |-> [kind |-> "null", hex |-> "", ref |-> 0],   \* createObjectId(id)
     idArgHex |-> "",            \* id.toString() when createObjectId was called
     idResult |-> 0,             \* the instance createObjectId returned
     idResultHex |-> "",         \* its toString() when it was returned
     errors |-> <<>>]            \* errors of the load steps, in order of occurrence

\* one invocation modifier.call(modifier, collectionName, item)
Invocation(m, c, d) == [mod |-> m, coll |-> c, doc |-> d]

\* the mapper of Promise.map(items, ...) applied to one item: Promise.each over
\* self.modifiers starts with the first modifier, or is already finished
NewItem(mods, c, d) ==
    [orig |-> d, item |-> d,
     st |-> IF Len(mods) = 0 THEN "done" ELSE "running",
     invs |-> IF Len(mods) = 0 THEN <<>> ELSE <<Invocation(mods[1], c, d)>>]

\* mutant: the first element of an array is sliced away
ItemsSlicedFromOne(data) ==
    IF data.kind = "array" THEN SubSeq(data.items, 2, Len(data.items)) ELSE Values(data.entries)

\* the items of a collection: array.slice() or _.values(object)
Items(data) == IF data.kind = "array" THEN data.items ELSE Values(data.entries)

\* mutant: a connection still being opened is taken for none
HasClientOpen(cl) == cl = "open"

\* mutant: the test for a connection is dropped
HasClientAlways(cl) == TRUE

\* this.client is set (a promise, whatever its state)
HasClient(cl) == cl # "none"

\* the promise this.client is fulfilled with the database; after close it
\* still is, and what a request on the closed database does is the driver's
\* choice
ClientFulfilled(cl) == cl \in {"open", "closed"}

\* this._connect(): reuse this.client or issue db.open()
Connect(cl) == IF HasClient(cl) THEN cl ELSE "pending"
ConnectOpens(cl, n) == IF HasClient(cl) THEN n ELSE n + 1

\* the iterator of Promise.each(collectionNames, ...) entered for collection k
BeginStep(call, mods, k) ==
    LET c == Keys(call.data)[k]
        items == Items(DataOf(call.data, c))
    IN [call EXCEPT !.pc = "modifying", !.cidx = k,
                    !.stepStarted = @ \cup {c},
                    !.chain[c] = [j \in 1..Len(items) |-> NewItem(mods, c, items[j])],
                    !.doneOrder[c] = IF Len(mods) = 0 THEN [j \in 1..Len(items) |-> j] ELSE <<>>]

\* mutant: the steps of all the collections are started at once
LoadDataAllAtOnce(call, mods, F) ==
    IF Len(F) = 0
    THEN [call EXCEPT !.data = F, !.pc = "done", !.outcome = Fulfilled]
    ELSE [BeginStep([call EXCEPT !.data = F], mods, 1) EXCEPT
             !.stepStarted = KeySet(F),
             !.chain = [c \in Names |->
                           IF c \in KeySet(F)
                           THEN [j \in 1..Len(Items(DataOf(F, c))) |->
                                    NewItem(mods, c, Items(DataOf(F, c))[j])]
                           ELSE <<>>]]

\* _loadData(data)
LoadData(call, mods, F) ==
    IF Len(F) = 0
    THEN [call EXCEPT !.data = F, !.pc = "done", !.outcome = Fulfilled]
    ELSE BeginStep([call EXCEPT !.data = F], mods, 1)

\* clear(collectionNames), up to the request for the collections listing
Clear(call, all, names) ==
    [call EXCEPT !.pc = "listing", !.allNames = all, !.names = names]

\* what follows the clear phase: .return(null) and the next .then
AfterClear(call, mods) ==
    IF call.op = "clearAndLoad" THEN LoadData(call, mods, call.data)
    ELSE IF call.op = "clearAllAndLoad" THEN [call EXCEPT !.pc = "resolving"]
    ELSE [call EXCEPT !.pc = "done", !.outcome = Fulfilled]

\* mutant: the system collections are not filtered out
IsTargetSystemToo(call, c) == call.allNames \/ c \in call.names

\* mutant: the names filter is dropped, every collection is cleared
IsTargetAnyName(call, c) == ~StartsWith(c, SystemPrefix)

\* mutant: _.includes with swapped arguments never matches a name
IsTargetSwapped(call, c) ==
    /\ ~StartsWith(c, SystemPrefix)
    /\ call.allNames

\* the filter of getCollections
IsTarget(call, c) ==
    /\ ~StartsWith(c, SystemPrefix)
    /\ (call.allNames \/ c \in call.names)

Reject(call, e) == [call EXCEPT !.pc = "done", !.outcome = Rejected(e)]

Settled(call) == call.pc \in {"idle", "done"}
\* no modifier of the call is still running
Quiet(call) ==
    /\ \A c \in Names : \A j \in 1..Len(call.chain[c]) : call.chain[c][j].st # "running"
    /\ call.dropPending = {}
    /\ call.insertPending = {}
    /\ \A k \in 1..Len(call.jobs) : call.jobs[k].st \in {"ok", "err"}

(* ---------------------------------------------------------------------- *)
(* Initial state: a loader just constructed, a database with some          *)
(* collections already populated                                           *)
(* ---------------------------------------------------------------------- *)
InitialDatabases == {Names, {Archer, SystemJs}}

\* options.user: null unless the caller names a user
NoUser == "null"
Admin == "admin"

\* new Loader(dbOrUri, options) with options.user = user
Constructed(user) ==
    /\ \E E \in InitialDatabases :
         /\ exist = E
         /\ docs = [c \in Names |-> IF c \in E THEN <<OldDoc(c)>> ELSE <<>>]
    /\ client = "none"
    /\ opens = 0
    /\ modifiers = <<>>
    /\ calls = [i \in CallIds |-> IdleCall]
    /\ started = 0
    /\ cleared = <<>>
    /\ objects = <<>>
    /\ options = [user |-> user]
    /\ authenticated = FALSE

\* a loader constructed without credentials
Init == Constructed(NoUser)

\* a loader constructed with a user and a password
InitCredentials == Constructed(Admin)

(* ---------------------------------------------------------------------- *)
(* Loader.prototype.addModifier                                            *)
(* ---------------------------------------------------------------------- *)
AddModifier(m) ==
    /\ started = 0
    /\ Len(modifiers) < MaxModifiers
    /\ m \notin SeqToSet(modifiers)
    /\ modifiers' = Append(modifiers, m)
    /\ UNCHANGED <<docs, exist, client, opens, calls, started, cleared, objects, options, authenticated>>

(* ---------------------------------------------------------------------- *)
(* The public operations, up to their first asynchronous wait              *)
(* ---------------------------------------------------------------------- *)
\* one call at a time: a call starts when the previous one has settled and
\* none of its modifiers is still running
CanStart(i) ==
    /\ started < MaxCalls
    /\ \A j \in CallIds : i <= j /\ Settled(calls[j]) /\ Quiet(calls[j])

NewCall(op, input) ==
    [IdleCall EXCEPT !.op = op, !.input = input, !.beforeDocs = docs, !.beforeExist = exist,
                     !.beforeOpens = opens, !.beforeClient = client,
                     !.seq = started + 1,
                     !.inFlight = {calls[j].seq : j \in {k \in CallIds : ~Settled(calls[k])}}]

Install(i, call) == calls' = [j \in CallIds |-> IF j = i THEN call ELSE IdleCall]

Load(i, fixtures) ==
    /\ CanStart(i)
    /\ Install(i, [NewCall("load", fixtures) EXCEPT !.pc = "resolving"])
    /\ started' = started + 1
    /\ UNCHANGED <<docs, exist, client, opens, modifiers, cleared, objects, options, authenticated>>

ClearAndLoad(i, fixtures) ==
    /\ CanStart(i)
    /\ Install(i, [NewCall("clearAndLoad", fixtures) EXCEPT !.pc = "resolving"])
    /\ started' = started + 1
    /\ UNCHANGED <<docs, exist, client, opens, modifiers, cleared, objects, options, authenticated>>

ClearAllAndLoad(i, fixtures) ==
    /\ CanStart(i)
    /\ Install(i, Clear(NewCall("clearAllAndLoad", fixtures), TRUE, {}))
    /\ client' = Connect(client)
    /\ opens' = ConnectOpens(client, opens)
    /\ started' = started + 1
    /\ UNCHANGED <<docs, exist, modifiers, cleared, objects, options, authenticated>>

(* ---------------------------------------------------------------------- *)
(* Completions                                                             *)
(* ---------------------------------------------------------------------- *)
\* the promise of fixturesLoader settles and the next .then / .tap runs
FixturesResolved(i) ==
    LET call == calls[i]
        r == fixturesLoader(call.input)
        ok == [call EXCEPT !.resolution = "ok", !.data = r.data]
    IN /\ call.pc = "resolving"
       /\ ~IsDirectory(call.input)
       /\ IF ~r.ok
          THEN /\ calls' = [calls EXCEPT ![i] = Reject([call EXCEPT !.resolution = "err"], r.err)]
               /\ UNCHANGED <<client, opens>>
          ELSE /\ calls' = [calls EXCEPT ![i] =
                     IF call.op = "clearAndLoad"
                     THEN Clear(ok, FALSE, KeySet(r.data))
                     ELSE LoadData(ok, modifiers, r.data)]
               /\ client' = Connect(client)
               /\ opens' = ConnectOpens(client, opens)
       /\ UNCHANGED <<docs, exist, modifiers, started, cleared, objects, options, authenticated>>

\* mutant: the database is handed on without authenticating
OpenedWithoutAuthentication(opts) == "open"

\* the .then of db.openAsync(): if (!options.user) return db; else
\* db.authenticateAsync(options.user, options.pass) is requested
Opened(opts) == IF opts.user = NoUser THEN "open" ELSE "authenticating"

\* db.openAsync() settles
OpenDone(ok) ==
    /\ client = "pending"
    /\ client' = IF ok THEN Opened(options) ELSE "failed"
    /\ UNCHANGED <<docs, exist, opens, modifiers, calls, started, cleared, objects, options, authenticated>>

\* db.authenticateAsync(user, pass) settles: this.client is fulfilled with
\* the database, or rejected
AuthenticateDone(ok) ==
    /\ client = "authenticating"
    /\ client' = IF ok THEN "open" ELSE "failed"
    /\ authenticated' = ok
    /\ UNCHANGED <<docs, exist, opens, modifiers, calls, started, cleared, objects, options>>

\* remove issued on targets[k]
IssueRemove(call, k) ==
    [call EXCEPT !.pc = "removing", !.ridx = k, !.removeIssued = @ \cup {call.targets[k]}]

\* db.collectionsAsync() answers; the filter keeps the targets; .each starts
ListDone(i, order) ==
    LET call == calls[i]
        listed == [call EXCEPT !.listed = TRUE, !.targets = order]
    IN /\ call.pc = "listing"
       /\ ClientFulfilled(client)
       /\ order \in Enumerations({c \in exist : IsTarget(call, c)})
       /\ calls' = [calls EXCEPT ![i] =
              IF Len(order) = 0 THEN AfterClear(listed, modifiers) ELSE IssueRemove(listed, 1)]
       /\ UNCHANGED <<docs, exist, client, opens, modifiers, started, cleared, objects, options, authenticated>>

\* the connection was rejected: clear is rejected with it; so it is when the
\* listing is refused by a database that was closed
ListFailed(i) ==
    /\ calls[i].pc = "listing"
    /\ client \in {"failed", "closed"}
    /\ calls' = [calls EXCEPT ![i] =
           Reject(calls[i], IF client = "failed" THEN ConnectErr ELSE ClosedErr)]
    /\ UNCHANGED <<docs, exist, client, opens, modifiers, started, cleared, objects, options, authenticated>>

\* mutant: the last target is not waited for
MoreTargetsButLast(call) == call.ridx + 1 < Len(call.targets)

\* .each(...) has another collection to remove
MoreTargets(call) == call.ridx < Len(call.targets)

\* mutant: the error of a remove is swallowed and the call goes on
RemoveErrorIgnored(call, c) ==
    AfterClear([call EXCEPT !.removeFailed = @ \cup {c}], modifiers)

\* a rejected remove rejects .each(...) and with it the whole call
RemoveRejected(call, c) ==
    Reject([call EXCEPT !.removeFailed = @ \cup {c}], RemoveErr(c))

\* collection.removeAsync({}) settles
RemoveDone(i, ok) ==
    LET call == calls[i]
        c == call.targets[call.ridx]
        done == [call EXCEPT !.removeOK = @ \cup {c}]
    IN /\ call.pc = "removing"
       /\ IF ok
          THEN /\ docs' = [docs EXCEPT ![c] = <<>>]
               /\ calls' = [calls EXCEPT ![i] =
                      IF MoreTargets(call)
                      THEN IssueRemove(done, call.ridx + 1)
                      ELSE AfterClear(done, modifiers)]
          ELSE /\ docs' = docs
               /\ calls' = [calls EXCEPT ![i] = RemoveRejected(call, c)]
       /\ UNCHANGED <<exist, client, opens, modifiers, started, cleared, objects, options, authenticated>>

\* mutant: every modifier is handed the original document
NextInvocationOriginal(m, c, it, out) == Invocation(m, c, it.orig)

\* item = modifiedItem; the next modifier is called with (collectionName, item)
NextInvocation(m, c, it, out) == Invocation(m, c, out)

\* mutant: the failure is logged but the item is passed on unmodified
ModifierErrorSwallowed(call, c, j, e) ==
    [call EXCEPT !.chain[c][j].st = "done", !.errors = Append(@, e)]

\* mutant: a later failure replaces the error already reported
ModifierErrorLastWins(call, c, j, e) ==
    Reject([call EXCEPT !.chain[c][j].st = "failed", !.errors = Append(@, e)], e)

\* mutant: the rejection of a modifier is never passed on to the call
ModifierErrorNeverReported(call, c, j, e) ==
    [call EXCEPT !.chain[c][j].st = "failed", !.errors = Append(@, e)]

\* a modifier is rejected: Promise.each of the item, Promise.map of the
\* collection and Promise.each of the call are rejected with its error,
\* unless the call is already settled
ModifierRejected(call, c, j, e) ==
    LET failed == [call EXCEPT !.chain[c][j].st = "failed", !.errors = Append(@, e)]
    IN IF call.pc = "modifying" THEN Reject(failed, e) ELSE failed

\* one modifier call of item j of collection c settles
ModifierDone(i, c, j, ok) ==
    LET call == calls[i]
        it == call.chain[c][j]
        n == Len(it.invs)
        inv == it.invs[n]
        out == Modify(inv.mod, inv.coll, inv.doc)
        next == IF n < Len(modifiers)
                THEN [it EXCEPT !.item = out,
                                !.invs = Append(@, NextInvocation(modifiers[n + 1], c, it, out))]
                ELSE [it EXCEPT !.item = out, !.st = "done"]
    IN /\ j \in 1..Len(call.chain[c])
       /\ it.st = "running"
       /\ calls' = [calls EXCEPT ![i] =
              IF ok THEN [call EXCEPT !.chain[c][j] = next,
                                      !.doneOrder[c] = IF next.st = "done" THEN Append(@, j) ELSE @]
              ELSE ModifierRejected(call, c, j, ModifierErr(c, j, inv.mod))]
       /\ UNCHANGED <<docs, exist, client, opens, modifiers, started, cleared, objects, options, authenticated>>

CurrentColl(call) == Keys(call.data)[call.cidx]
ItemsDone(call, c) == \A j \in 1..Len(call.chain[c]) : call.chain[c][j].st = "done"

\* mutant: the modified items are collected as their chains finish
ModifiedItemsAsFinished(call, c) ==
    [k \in 1..Len(call.doneOrder[c]) |-> call.chain[c][call.doneOrder[c][k]].item]

\* what Promise.map is fulfilled with: the results at the positions of the
\* input items
ModifiedItems(call, c) == [j \in 1..Len(call.chain[c]) |-> call.chain[c][j].item]

\* Promise.map is fulfilled and the connection is open: insert is issued
InsertIssued(i) ==
    LET call == calls[i]
        c == CurrentColl(call)
    IN /\ call.pc = "modifying"
       /\ ItemsDone(call, c)
       /\ ClientFulfilled(client)
       /\ calls' = [calls EXCEPT ![i] =
              [call EXCEPT !.pc = "inserting", !.insertIssued = @ \cup {c},
                           !.inserts[c] = @ + 1,
                           !.batch[c] = ModifiedItems(call, c)]]
       /\ UNCHANGED <<docs, exist, client, opens, modifiers, started, cleared, objects, options, authenticated>>

\* Promise.map is fulfilled but the connection was rejected: so is the step
InsertNoConnection(i) ==
    LET call == calls[i]
        c == CurrentColl(call)
    IN /\ call.pc = "modifying"
       /\ ItemsDone(call, c)
       /\ client = "failed"
       /\ calls' = [calls EXCEPT ![i] =
              Reject([call EXCEPT !.errors = Append(@, ConnectErr)], ConnectErr)]
       /\ UNCHANGED <<docs, exist, client, opens, modifiers, started, cleared, objects, options, authenticated>>

\* mutant: the insert replaces what the collection held
InsertedReplacing(old, b, n) == SubSeq(b, 1, n)

\* collection.insertAsync(items): the first n documents of the batch are
\* appended to the collection
Inserted(old, b, n) == old \o SubSeq(b, 1, n)

\* collection.insertAsync(items) settles; a rejected insert may have
\* stored the first n documents of the batch
InsertDone(i, ok, c, n) ==
    LET call == calls[i]
        b == call.batch[c]
        done == [call EXCEPT !.insertOK = @ \cup {c}]
    IN /\ call.pc = "inserting"
       /\ c = CurrentColl(call)
       /\ IF ok
          THEN /\ n = Len(b)
               /\ calls' = [calls EXCEPT ![i] =
                      IF call.cidx < Len(call.data)
                      THEN BeginStep(done, modifiers, call.cidx + 1)
                      ELSE [done EXCEPT !.pc = "done", !.outcome = Fulfilled]]
          ELSE /\ n < Len(b)
               /\ calls' = [calls EXCEPT ![i] =
                      Reject([call EXCEPT !.insertFailed = @ \cup {c},
                                          !.errors = Append(@, InsertErr(c))], InsertErr(c))]
       /\ docs' = [docs EXCEPT ![c] = Inserted(@, b, n)]
       /\ exist' = IF ok \/ n > 0 THEN exist \cup {c} ELSE exist
       /\ UNCHANGED <<client, opens, modifiers, started, cleared, objects, options, authenticated>>

(* ---------------------------------------------------------------------- *)
(* _directoryToObject: readdir, one stat per entry (Promise.map), then the *)
(* merge of the file objects (.each)                                       *)
(* ---------------------------------------------------------------------- *)
\* fs.readdirAsync(dir) answers with the entries in some order
DirectoryListed(i, order) ==
    LET call == calls[i]
    IN /\ call.pc = "resolving"
       /\ IsDirectory(call.input)
       /\ order \in Enumerations(DOMAIN FileSystem[call.input.path].children)
       /\ calls' = [calls EXCEPT ![i] =
              [call EXCEPT !.pc = "statting", !.listing = order,
                           !.fileObjects = [k \in 1..Len(order) |-> <<>>]]]
       /\ UNCHANGED <<docs, exist, client, opens, modifiers, started, cleared, objects, options, authenticated>>

\* mutant: a subdirectory is handed to require like a file, which throws
StatResultNoDirectoryCheck(node) == [ok |-> node.type # "dir", obj |-> node.exports]

\* stats.isDirectory() ? {} : _fileToObject(path)
StatResult(node) == [ok |-> TRUE, obj |-> IF node.type = "dir" THEN <<>> ELSE node.exports]

\* fs.statAsync(path) of entry k answers
StatDone(i, k) ==
    LET call == calls[i]
        node == FileSystem[call.input.path].children[call.listing[k]]
        r == StatResult(node)
    IN /\ call.pc = "statting"
       /\ k \in (1..Len(call.listing)) \ call.statDone
       /\ calls' = [calls EXCEPT ![i] =
              IF r.ok
              THEN [call EXCEPT !.fileObjects[k] = r.obj,
                                !.statDone = @ \cup {k},
                                !.statOrder = Append(@, k)]
              ELSE Reject([call EXCEPT !.resolution = "err"], ResolveErr("require"))]
       /\ UNCHANGED <<docs, exist, client, opens, modifiers, started, cleared, objects, options, authenticated>>

\* mutant: every file's batch becomes an entry of its own
AddDocsNoMerge(F, name, items) == Append(F, Entry(name, Arr(items)))

\* collections[name] = (collections[name] || []).concat(docs)
AddDocs(F, name, items) ==
    IF name \in KeySet(F)
    THEN [k \in 1..Len(F) |->
             IF F[k].name = name THEN Entry(name, Arr(F[k].data.items \o items)) ELSE F[k]]
    ELSE Append(F, Entry(name, Arr(items)))

\* _.forEach(fileObject, ...): the entries of one file object are added
RECURSIVE MergeFile(_, _)
MergeFile(F, fileObject) ==
    IF Len(fileObject) = 0 THEN F
    ELSE MergeFile(AddDocs(F, Head(fileObject).name, Items(Head(fileObject).data)),
                   Tail(fileObject))

\* .each(function(fileObject) ...) over the file objects, in their order
RECURSIVE MergeFiles(_, _)
MergeFiles(F, fileObjects) ==
    IF Len(fileObjects) = 0 THEN F
    ELSE MergeFiles(MergeFile(F, Head(fileObjects)), Tail(fileObjects))

DirectoryToObject(fileObjects) == MergeFiles(<<>>, fileObjects)

\* mutant: the file objects are merged in the order their stats answered
MappedInCompletionOrder(call) ==
    [k \in 1..Len(call.listing) |-> call.fileObjects[call.statOrder[k]]]

\* Promise.map fulfils with the file objects in the order of the listing
Mapped(call) == [k \in 1..Len(call.listing) |-> call.fileObjects[k]]

\* every stat has answered: the merge runs and the next .then / .tap runs
DirectoryResolved(i) ==
    LET call == calls[i]
        F == DirectoryToObject(Mapped(call))
        ok == [call EXCEPT !.resolution = "ok", !.data = F]
    IN /\ call.pc = "statting"
       /\ call.statDone = 1..Len(call.listing)
       /\ calls' = [calls EXCEPT ![i] =
              IF call.op = "clearAndLoad"
              THEN Clear(ok, FALSE, KeySet(F))
              ELSE LoadData(ok, modifiers, F)]
       /\ client' = Connect(client)
       /\ opens' = ConnectOpens(client, opens)
       /\ UNCHANGED <<docs, exist, modifiers, started, cleared, objects, options, authenticated>>

(* ---------------------------------------------------------------------- *)
(* Loader.prototype.clear (promise-based)                                  *)
(* ---------------------------------------------------------------------- *)
ClearOp(i, arg) ==
    /\ CanStart(i)
    /\ Install(i, Clear([NewCall("clear", NoInput) EXCEPT !.arg = arg],
                        NoNames(arg), SeqToSet(NameList(arg))))
    /\ client' = Connect(client)
    /\ opens' = ConnectOpens(client, opens)
    /\ started' = started + 1
    /\ UNCHANGED <<docs, exist, modifiers, cleared, objects, options, authenticated>>

(* ---------------------------------------------------------------------- *)
(* Loader.prototype.clear of the callback-based Loader (index.js 504-537): *)
(* db.open, then dropDatabase, or one dropCollection per name, all issued  *)
(* at once by async.forEach                                                *)
(* ---------------------------------------------------------------------- *)
CbClear(i, arg) ==
    /\ CanStart(i)
    /\ Install(i, [NewCall("cbClear", NoInput) EXCEPT !.arg = arg, !.pc = "cbOpening"])
    /\ started' = started + 1
    /\ UNCHANGED <<docs, exist, client, opens, modifiers, cleared, objects, options, authenticated>>

\* the fixtures argument of the callback-based load: typeof fixtures
\* decides between loadData, fs.stat and the error
CbLoad(call) ==
    IF call.input.kind = "object" THEN [call EXCEPT !.data = call.input.data, !.pc = "cbLoadOpening"]
    ELSE IF call.input.kind = "string" THEN [call EXCEPT !.pc = "cbStat"]
    ELSE [call EXCEPT !.pc = "done", !.outcome = Fulfilled,
                      !.loadErr = ResolveErr("unsupported")]

\* the callback of clear: clear alone reports success; clearAndLoad goes on
\* to self.load(fixtures, ...)
CbAfterClear(call) ==
    IF call.op = "cbClearAndLoad" THEN CbLoad(call)
    ELSE [call EXCEPT !.pc = "done", !.outcome = Fulfilled]

\* self.db.open answers
CbOpened(i, ok) ==
    LET call == calls[i]
        names == SeqToSet(NameList(call.arg))
    IN /\ call.pc = "cbOpening"
       /\ calls' = [calls EXCEPT ![i] =
              IF ~ok THEN Reject(call, ConnectErr)
              ELSE IF NoNames(call.arg) THEN [call EXCEPT !.pc = "cbDropDatabase"]
              ELSE IF names = {} THEN CbAfterClear(call)
              ELSE [call EXCEPT !.pc = "cbDropping", !.dropPending = names]]
       /\ UNCHANGED <<docs, exist, client, opens, modifiers, started, cleared, objects, options, authenticated>>

\* db.dropDatabase answers
CbDropDatabaseDone(i, ok) ==
    LET call == calls[i]
    IN /\ call.pc = "cbDropDatabase"
       /\ IF ok
          THEN /\ docs' = [c \in Names |-> <<>>]
               /\ exist' = {}
               /\ calls' = [calls EXCEPT ![i] = CbAfterClear([call EXCEPT !.dropped = exist])]
          ELSE /\ UNCHANGED <<docs, exist>>
               /\ calls' = [calls EXCEPT ![i] = Reject(call, Err("dropDatabase", <<>>, 0, ""))]
       /\ UNCHANGED <<client, opens, modifiers, started, cleared, objects, options, authenticated>>

\* mutant: 'ns not found' is reported like any other error
IgnoredNone(e) == FALSE

\* err.message == 'ns not found' is not passed on
Ignored(e) == e.type = "ns not found"

\* db.dropCollection(c) answers: a collection that does not exist gives
\* 'ns not found'; one that exists is dropped, or the driver fails
CbDropDone(i, c, ok) ==
    LET call == calls[i]
        e == IF c \notin exist THEN Err("ns not found", c, 0, "")
             ELSE IF ok THEN NoErr
             ELSE Err("drop", c, 0, "")
        drops == c \in exist /\ ok
        rest == [call EXCEPT !.dropPending = @ \ {c},
                             !.dropped = IF drops THEN @ \cup {c} ELSE @]
    IN /\ c \in call.dropPending
       /\ docs' = IF drops THEN [docs EXCEPT ![c] = <<>>] ELSE docs
       /\ exist' = IF drops THEN exist \ {c} ELSE exist
       /\ calls' = [calls EXCEPT ![i] =
              IF e # NoErr /\ ~Ignored(e)
              THEN IF call.pc = "cbDropping"
                   THEN Reject([rest EXCEPT !.removeFailed = @ \cup {c}], e)
                   ELSE [rest EXCEPT !.removeFailed = @ \cup {c}]
              ELSE IF call.pc = "cbDropping" /\ rest.dropPending = {}
                   THEN CbAfterClear(rest)
                   ELSE rest]
       /\ UNCHANGED <<client, opens, modifiers, started, cleared, objects, options, authenticated>>

(* ---------------------------------------------------------------------- *)
(* Loader.prototype.clearAndLoad of the callback-based Loader (index.js    *)
(* 549-565) and the load it runs (465-495, 574-623): clear, then load,     *)
(* then cb()                                                               *)
(* ---------------------------------------------------------------------- *)
CbClearAndLoad(i, arg, fixtures) ==
    /\ CanStart(i)
    /\ Install(i, [NewCall("cbClearAndLoad", fixtures) EXCEPT !.arg = arg, !.pc = "cbOpening"])
    /\ started' = started + 1
    /\ UNCHANGED <<docs, exist, client, opens, modifiers, cleared, objects, options, authenticated>>

\* the callback clearAndLoad hands to self.load: function(err) { cb(); }
CbLoadCallback(call, e) ==
    [call EXCEPT !.pc = "done", !.outcome = Fulfilled, !.loadErr = e]

\* fs.stat(fixtures) answers: an error goes to the callback of load, a file
\* is required and loaded as an object
CbStatDone(i) ==
    LET call == calls[i]
        node == FileSystem[call.input.path]
    IN /\ call.pc = "cbStat"
       /\ node.type \in {"missing", "file"}
       /\ calls' = [calls EXCEPT ![i] =
              IF node.type = "missing" THEN CbLoadCallback(call, ResolveErr("enoent"))
              ELSE [call EXCEPT !.data = node.exports, !.pc = "cbLoadOpening"]]
       /\ UNCHANGED <<docs, exist, client, opens, modifiers, started, cleared, objects, options, authenticated>>

\* self.db.open of loadData answers; async.forEach then issues the insert
\* of every collection at once
CbLoadOpened(i, ok) ==
    LET call == calls[i]
        names == KeySet(call.data)
    IN /\ call.pc = "cbLoadOpening"
       /\ calls' = [calls EXCEPT ![i] =
              IF ~ok THEN CbLoadCallback(call, ConnectErr)
              ELSE IF names = {} THEN CbLoadCallback(call, NoErr)
              ELSE [call EXCEPT !.pc = "cbInserting", !.insertPending = names,
                                !.insertIssued = names,
                                !.batch = [c \in Names |->
                                              IF c \in names THEN Items(DataOf(call.data, c))
                                              ELSE <<>>]]]
       /\ UNCHANGED <<docs, exist, client, opens, modifiers, started, cleared, objects, options, authenticated>>

\* collection.insert(items, {safe: true}, next) answers; the first error, or
\* the last success, reaches the callback of load
CbInsertDone(i, c, ok, n) ==
    LET call == calls[i]
        b == call.batch[c]
        rest == [call EXCEPT !.insertPending = @ \ {c},
                             !.insertOK = IF ok THEN @ \cup {c} ELSE @,
                             !.insertFailed = IF ok THEN @ ELSE @ \cup {c}]
    IN /\ c \in call.insertPending
       /\ IF ok THEN n = Len(b) ELSE n < Len(b)
       /\ docs' = [docs EXCEPT ![c] = Inserted(@, b, n)]
       /\ exist' = IF n > 0 THEN exist \cup {c} ELSE exist
       /\ calls' = [calls EXCEPT ![i] =
              IF call.pc # "cbInserting" THEN rest
              ELSE IF ~ok THEN CbLoadCallback(rest, InsertErr(c))
              ELSE IF rest.insertPending = {} THEN CbLoadCallback(rest, NoErr)
              ELSE rest]
       /\ UNCHANGED <<client, opens, modifiers, started, cleared, objects, options, authenticated>>

(* ---------------------------------------------------------------------- *)
(* The mongoskin Loader (src/index.js): load clears a collection the first *)
(* time the loader inserts into it, then inserts; every collection is      *)
(* handled at once and a counter decides when callback is invoked          *)
(* ---------------------------------------------------------------------- *)
\* this.clearedCollections.indexOf(collectionName) === -1
NotCleared(done, c) == c \notin SeqToSet(done)

\* one insertCollection(collectionName, data, callback) made from the
\* loadObject u: the remove is requested the first time, else the insert
Job(done, u, c, data) ==
    [unit |-> u, coll |-> c, items |-> Items(data),
     clears |-> NotCleared(done, c),
     st |-> IF NotCleared(done, c) THEN "removing" ELSE "inserting"]

\* loadObject(data, callback): insertCollection for each key, in order;
\* done is clearedCollections, which grows on the way
RECURSIVE LoadObject(_, _, _)
LoadObject(done, u, F) ==
    IF Len(F) = 0 THEN [jobs |-> <<>>, cleared |-> done]
    ELSE LET c == Head(F).name
             job == Job(done, u, c, Head(F).data)
             rest == LoadObject(IF NotCleared(done, c) THEN Append(done, c) ELSE done, u, Tail(F))
         IN [jobs |-> <<job>> \o rest.jobs, cleared |-> rest.cleared]

\* callback(err) / callback(): the first invocation settles the call
SkinCallback(call, e) ==
    [call EXCEPT !.callbacks = Append(@, e),
                 !.pc = "done",
                 !.outcome = IF call.pc = "done" THEN @
                             ELSE IF e = NoErr THEN Fulfilled ELSE Rejected(e)]

\* the callback loadDir hands to loadFile:
\* if (err) return callback(err); done++; if (total === done) callback();
FileCallback(call, e) ==
    LET counted == [call EXCEPT !.dirDone = @ + 1]
    IN IF e # NoErr THEN SkinCallback(call, e)
       ELSE IF counted.dirDone = counted.dirTotal THEN SkinCallback(counted, NoErr)
       ELSE counted

\* the callback loadObject was given: that of load, or that of loadDir
UnitCallback(call, e) == IF call.isDir THEN FileCallback(call, e) ELSE SkinCallback(call, e)

\* the callback loadObject hands to insertCollection:
\* if (err) return callback(err); done++; if (done === total) callback();
JobCallback(call, k, e) ==
    LET u == call.jobs[k].unit
        counted == [call EXCEPT !.units[u].done = @ + 1]
    IN IF e # NoErr THEN UnitCallback(call, e)
       ELSE IF counted.units[u].done = counted.units[u].total THEN UnitCallback(counted, NoErr)
       ELSE counted

\* load(data) with an object: loadObject runs to its end at once
SkinLoadObject(call, F) ==
    LET r == LoadObject(cleared, 1, F)
    IN [call EXCEPT !.data = F, !.pc = "skLoading", !.jobs = r.jobs,
                    !.units = <<[total |-> Len(F), done |-> 0]>>]

SkinLoad(i, data) ==
    LET call == NewCall("skinLoad", data)
    IN /\ CanStart(i)
       /\ data.kind \in {"object", "string", "number"}
       /\ IF data.kind = "object"
          THEN /\ Install(i, SkinLoadObject(call, data.data))
               /\ cleared' = LoadObject(cleared, 1, data.data).cleared
          ELSE /\ Install(i, IF data.kind = "string" THEN [call EXCEPT !.pc = "skStat"]
                             ELSE SkinCallback(call, ResolveErr("unsupported")))
               /\ cleared' = cleared
       /\ started' = started + 1
       /\ UNCHANGED <<docs, exist, client, opens, modifiers, objects, options, authenticated>>

\* fs.stat(data) answers: an error is thrown from the callback of stat (no
\* callback is invoked); a file is required and loaded as an object; for a
\* directory loadDir requests its listing
SkinStatDone(i) ==
    LET call == calls[i]
        node == FileSystem[call.input.path]
    IN /\ call.pc = "skStat"
       /\ IF node.type = "missing"
          THEN /\ calls' = [calls EXCEPT ![i] = [call EXCEPT !.pc = "skThrown"]]
               /\ cleared' = cleared
          ELSE IF node.type = "dir"
          THEN /\ calls' = [calls EXCEPT ![i] = [call EXCEPT !.pc = "skReaddir", !.isDir = TRUE]]
               /\ cleared' = cleared
          ELSE /\ calls' = [calls EXCEPT ![i] = SkinLoadObject(call, node.exports)]
               /\ cleared' = LoadObject(cleared, 1, node.exports).cleared
       /\ UNCHANGED <<docs, exist, client, opens, modifiers, started, objects, options, authenticated>>

\* files.forEach(... self.loadFile ...): loadObject of each file in turn, the
\* file u being the loadObject u
RECURSIVE LoadFiles(_, _, _)
LoadFiles(done, u, files) ==
    IF Len(files) = 0 THEN [jobs |-> <<>>, cleared |-> done, units |-> <<>>]
    ELSE LET r == LoadObject(done, u, Head(files))
             rest == LoadFiles(r.cleared, u + 1, Tail(files))
         IN [jobs |-> r.jobs \o rest.jobs, cleared |-> rest.cleared,
             units |-> <<[total |-> Len(Head(files)), done |-> 0]>> \o rest.units]

\* fs.readdir(dir) answers with the entries in some order: every file is
\* required and loaded at once
SkinDirListed(i, order) ==
    LET call == calls[i]
        children == FileSystem[call.input.path].children
        files == [k \in 1..Len(order) |-> children[order[k]].exports]
        r == LoadFiles(cleared, 1, files)
    IN /\ call.pc = "skReaddir"
       /\ order \in Enumerations(DOMAIN children)
       /\ calls' = [calls EXCEPT ![i] =
              [call EXCEPT !.pc = "skLoading", !.listing = order, !.fileObjects = files,
                           !.dirTotal = Len(order), !.jobs = r.jobs, !.units = r.units]]
       /\ cleared' = r.cleared
       /\ UNCHANGED <<docs, exist, client, opens, modifiers, started, objects, options, authenticated>>

\* collection.remove({}) of job k answers: on success doInsert requests
\* the insert
SkinRemoveDone(i, k, ok) ==
    LET call == calls[i]
        c == call.jobs[k].coll
    IN /\ k \in 1..Len(call.jobs)
       /\ call.jobs[k].st = "removing"
       /\ docs' = IF ok THEN [docs EXCEPT ![c] = <<>>] ELSE docs
       /\ calls' = [calls EXCEPT ![i] =
              IF ok THEN [call EXCEPT !.jobs[k].st = "inserting", !.removeOK = @ \cup {c}]
              ELSE JobCallback([call EXCEPT !.jobs[k].st = "err", !.removeFailed = @ \cup {c}],
                               k, RemoveErr(c))]
       /\ UNCHANGED <<exist, client, opens, modifiers, started, cleared, objects, options, authenticated>>

\* collection.insert(items) of job k answers
SkinInsertDone(i, k, ok, n) ==
    LET call == calls[i]
        c == call.jobs[k].coll
        b == call.jobs[k].items
    IN /\ k \in 1..Len(call.jobs)
       /\ call.jobs[k].st = "inserting"
       /\ IF ok THEN n = Len(b) ELSE n < Len(b)
       /\ docs' = [docs EXCEPT ![c] = Inserted(@, b, n)]
       /\ exist' = IF n > 0 THEN exist \cup {c} ELSE exist
       /\ calls' = [calls EXCEPT ![i] =
              IF ok THEN JobCallback([call EXCEPT !.jobs[k].st = "ok", !.insertOK = @ \cup {c}],
                                     k, NoErr)
              ELSE JobCallback([call EXCEPT !.jobs[k].st = "err", !.insertFailed = @ \cup {c}],
                               k, InsertErr(c))]
       /\ UNCHANGED <<client, opens, modifiers, started, cleared, objects, options, authenticated>>

(* ---------------------------------------------------------------------- *)
(* exports.createObjectId.  An ObjectID instance is a reference r into     *)
(* objects; its canonical string is objects[r].                            *)
(* ---------------------------------------------------------------------- *)
Hexes == {"4eca", "5ffb", "a0b1"}

IdNull == [kind |-> "null", hex |-> "", ref |-> 0]
IdString(h) == [kind |-> "string", hex |-> h, ref |-> 0]
IdObject(r) == [kind |-> "objectid", hex |-> "", ref |-> r]
IdNumber == [kind |-> "number", hex |-> "", ref |-> 0]

\* what createObjectId may be called with: nothing, a hex string, an
\* ObjectID instance that exists, a number
IdArguments ==
    {IdNull, IdNumber} \cup {IdString(h) : h \in Hexes} \cup {IdObject(r) : r \in DOMAIN objects}

\* the instance createObjectId(id) returns; h is the string new ObjectID()
\* generates when it is given none
Created(id, h) ==
    IF id.kind = "objectid" THEN [ok |-> TRUE, ref |-> id.ref, hex |-> objects[id.ref]]
    ELSE IF id.kind = "string" THEN [ok |-> TRUE, ref |-> Len(objects) + 1, hex |-> id.hex]
    ELSE IF id.kind = "null" THEN [ok |-> TRUE, ref |-> Len(objects) + 1, hex |-> h]
    ELSE [ok |-> FALSE, ref |-> 0, hex |-> ""]

CreateObjectId(i, id, h) ==
    LET r == Created(id, h)
        call == [NewCall("createObjectId", NoInput) EXCEPT
                    !.idArg = id,
                    !.idArgHex = IF id.kind = "objectid" THEN objects[id.ref] ELSE id.hex]
    IN /\ CanStart(i)
       /\ id \in IdArguments
       /\ id.kind = "null" \/ h = CHOOSE x \in Hexes : TRUE
       /\ IF r.ok
          THEN /\ objects' = IF r.ref > Len(objects) THEN Append(objects, r.hex) ELSE objects
               /\ Install(i, [call EXCEPT !.pc = "done", !.outcome = Fulfilled,
                                          !.idResult = r.ref, !.idResultHex = r.hex])
          ELSE /\ objects' = objects
               /\ Install(i, Reject(call, Err("TypeError", <<>>, 0, "")))
       /\ started' = started + 1
       /\ UNCHANGED <<docs, exist, client, opens, modifiers, cleared, options, authenticated>>

\* a holder of the instance r changes it in place
MutateId(r, h) ==
    /\ r \in DOMAIN objects
    /\ objects[r] # h
    /\ objects' = [objects EXCEPT ![r] = h]
    /\ UNCHANGED <<docs, exist, client, opens, modifiers, calls, started, cleared, options, authenticated>>

(* ---------------------------------------------------------------------- *)
(* Calls that overlap: the caller does not wait for the previous call      *)
(* before making the next one on the same loader                           *)
(* ---------------------------------------------------------------------- *)
\* slot i is free to hold the next call: the first slot never used or, when
\* every slot was used, the first whose call has settled
CanOverlap(i) ==
    /\ started < MaxOverlapCalls
    /\ Settled(calls[i])
    /\ Quiet(calls[i])
    /\ \A j \in CallIds :
          \/ j >= i /\ (calls[j].pc = "idle" => calls[i].pc = "idle")
          \/ j < i /\ ~Settled(calls[j])
          \/ j < i /\ calls[j].pc = "done" /\ calls[i].pc = "idle"

\* a call is made while others may be in flight; connects: the call
\* reaches this._connect() before its first asynchronous wait
Overlapped(i, call, connects) ==
    /\ CanOverlap(i)
    /\ calls' = [calls EXCEPT ![i] = call]
    /\ client' = IF connects THEN Connect(client) ELSE client
    /\ opens' = IF connects THEN ConnectOpens(client, opens) ELSE opens
    /\ started' = started + 1
    /\ UNCHANGED <<docs, exist, modifiers, cleared, objects, options, authenticated>>

LoadOverlapped(i, fixtures) ==
    Overlapped(i, [NewCall("load", fixtures) EXCEPT !.pc = "resolving"], FALSE)

ClearAndLoadOverlapped(i, fixtures) ==
    Overlapped(i, [NewCall("clearAndLoad", fixtures) EXCEPT !.pc = "resolving"], FALSE)

ClearAllAndLoadOverlapped(i, fixtures) ==
    Overlapped(i, Clear(NewCall("clearAllAndLoad", fixtures), TRUE, {}), TRUE)

ClearOverlapped(i, arg) ==
    Overlapped(i, Clear([NewCall("clear", NoInput) EXCEPT !.arg = arg],
                        NoNames(arg), SeqToSet(NameList(arg))), TRUE)

(* ---------------------------------------------------------------------- *)
(* Loader.prototype.dropDatabase                                           *)
(* ---------------------------------------------------------------------- *)
DropDatabase(i) ==
    Overlapped(i, [NewCall("dropDatabase", NoInput) EXCEPT !.pc = "dropping"], TRUE)

\* db.dropDatabaseAsync() settles
DropDatabaseDone(i, ok) ==
    LET call == calls[i]
    IN /\ call.pc = "dropping"
       /\ ClientFulfilled(client)
       /\ IF ok
          THEN /\ docs' = [c \in Names |-> <<>>]
               /\ exist' = {}
               /\ calls' = [calls EXCEPT ![i] =
                      [call EXCEPT !.pc = "done", !.outcome = Fulfilled, !.dropped = exist]]
          ELSE /\ UNCHANGED <<docs, exist>>
               /\ calls' = [calls EXCEPT ![i] = Reject(call, Err("dropDatabase", <<>>, 0, ""))]
       /\ UNCHANGED <<client, opens, modifiers, started, cleared, objects, options, authenticated>>

\* the connection was rejected: so is dropDatabase
DropDatabaseNoConnection(i) ==
    /\ calls[i].pc = "dropping"
    /\ client = "failed"
    /\ calls' = [calls EXCEPT ![i] = Reject(calls[i], ConnectErr)]
    /\ UNCHANGED <<docs, exist, client, opens, modifiers, started, cleared, objects, options, authenticated>>

(* ---------------------------------------------------------------------- *)
(* Loader.prototype.close                                                  *)
(* ---------------------------------------------------------------------- *)
\* without this.client close throws; otherwise it waits for the connection
Close(i) ==
    Overlapped(i, IF HasClient(client)
                  THEN [NewCall("close", NoInput) EXCEPT !.pc = "closeWaiting"]
                  ELSE Reject(NewCall("close", NoInput), NoConnectionErr), FALSE)

\* the connection is there: db.closeAsync() is requested
CloseIssued(i) ==
    /\ calls[i].pc = "closeWaiting"
    /\ ClientFulfilled(client)
    /\ calls' = [calls EXCEPT ![i] = [calls[i] EXCEPT !.pc = "closing", !.closeIssued = TRUE]]
    /\ UNCHANGED <<docs, exist, client, opens, modifiers, started, cleared, objects, options, authenticated>>

\* the connection was rejected: so is close
CloseNoConnection(i) ==
    /\ calls[i].pc = "closeWaiting"
    /\ client = "failed"
    /\ calls' = [calls EXCEPT ![i] = Reject(calls[i], ConnectErr)]
    /\ UNCHANGED <<docs, exist, client, opens, modifiers, started, cleared, objects, options, authenticated>>

\* db.closeAsync() settles
CloseDone(i, ok) ==
    /\ calls[i].pc = "closing"
    /\ client' = IF ok THEN "closed" ELSE client
    /\ calls' = [calls EXCEPT ![i] =
           IF ok THEN [calls[i] EXCEPT !.pc = "done", !.outcome = Fulfilled]
           ELSE Reject(calls[i], Err("close", <<>>, 0, ""))]
    /\ UNCHANGED <<docs, exist, opens, modifiers, started, cleared, objects, options, authenticated>>

Next ==
    \/ \E m \in ModifierFns : AddModifier(m)
    \/ \E i \in CallIds, f \in FixtureInputs : Load(i, f)
    \/ \E i \in CallIds, f \in FixtureInputs : ClearAndLoad(i, f)
    \/ \E i \in CallIds, f \in FixtureInputs : ClearAllAndLoad(i, f)
    \/ \E i \in CallIds : FixturesResolved(i)
    \/ \E ok \in BOOLEAN : OpenDone(ok)
    \/ \E i \in CallIds, order \in UNION {Enumerations(S) : S \in SUBSET Names} : ListDone(i, order)
    \/ \E i \in CallIds : ListFailed(i)
    \/ \E i \in CallIds, ok \in BOOLEAN : RemoveDone(i, ok)
    \/ \E i \in CallIds, c \in Names, ok \in BOOLEAN : \E j \in DOMAIN calls[i].chain[c] : ModifierDone(i, c, j, ok)
    \/ \E i \in CallIds : InsertIssued(i)
    \/ \E i \in CallIds : InsertNoConnection(i)
    \/ \E i \in CallIds, ok \in BOOLEAN, c \in Names : \E n \in 0..Len(calls[i].batch[c]) : InsertDone(i, ok, c, n)

Spec == Init /\ [][Next]_vars

\* the loader without modifiers, called with the inputs that exercise the
\* resolver
NextResolve ==
    \/ \E i \in CallIds, f \in ResolverInputs : Load(i, f)
    \/ \E i \in CallIds, f \in ResolverInputs : ClearAndLoad(i, f)
    \/ \E i \in CallIds, f \in ResolverInputs : ClearAllAndLoad(i, f)
    \/ \E i \in CallIds : FixturesResolved(i)
    \/ \E i \in CallIds, order \in Enumerations(DOMAIN FixturesDir.children) : DirectoryListed(i, order)
    \/ \E i \in CallIds, k \in 1..Cardinality(DOMAIN FixturesDir.children) : StatDone(i, k)
    \/ \E i \in CallIds : DirectoryResolved(i)
    \/ \E ok \in BOOLEAN : OpenDone(ok)
    \/ \E i \in CallIds, order \in UNION {Enumerations(S) : S \in SUBSET Names} : ListDone(i, order)
    \/ \E i \in CallIds : ListFailed(i)
    \/ \E i \in CallIds, ok \in BOOLEAN : RemoveDone(i, ok)
    \/ \E i \in CallIds : InsertIssued(i)
    \/ \E i \in CallIds : InsertNoConnection(i)
    \/ \E i \in CallIds, ok \in BOOLEAN, c \in Names : \E n \in 0..Len(calls[i].batch[c]) : InsertDone(i, ok, c, n)

SpecResolve == Init /\ [][NextResolve]_vars

\* clear on the promise-based and on the callback-based Loader
NextClear ==
    \/ \E i \in CallIds, arg \in ClearArgs : ClearOp(i, arg)
    \/ \E i \in CallIds, arg \in ClearArgs : CbClear(i, arg)
    \/ \E ok \in BOOLEAN : OpenDone(ok)
    \/ \E i \in CallIds, order \in UNION {Enumerations(S) : S \in SUBSET Names} : ListDone(i, order)
    \/ \E i \in CallIds : ListFailed(i)
    \/ \E i \in CallIds, ok \in BOOLEAN : RemoveDone(i, ok)
    \/ \E i \in CallIds, ok \in BOOLEAN : CbOpened(i, ok)
    \/ \E i \in CallIds, ok \in BOOLEAN : CbDropDatabaseDone(i, ok)
    \/ \E i \in CallIds, c \in Names, ok \in BOOLEAN : CbDropDone(i, c, ok)

SpecClear == Init /\ [][NextClear]_vars

\* fixture inputs of the loads that overlap
OverlapInputs == {ObjectInput(EmptySet), ObjectInput(SouthparkOnly)}

\* load, clear, clearAndLoad, clearAllAndLoad, dropDatabase and close called
\* on one loader without waiting for one another
NextConnect ==
    \/ \E i \in CallIds, f \in OverlapInputs : LoadOverlapped(i, f)
    \/ \E i \in CallIds : ClearAndLoadOverlapped(i, ObjectInput(SouthparkOnly))
    \/ \E i \in CallIds : ClearAllAndLoadOverlapped(i, ObjectInput(EmptySet))
    \/ \E i \in CallIds : ClearOverlapped(i, ClearNoArg)
    \/ \E i \in CallIds : DropDatabase(i)
    \/ \E i \in CallIds : Close(i)
    \/ \E i \in CallIds : FixturesResolved(i)
    \/ \E ok \in BOOLEAN : OpenDone(ok)
    \/ \E i \in CallIds, order \in UNION {Enumerations(S) : S \in SUBSET Names} : ListDone(i, order)
    \/ \E i \in CallIds : ListFailed(i)
    \/ \E i \in CallIds, ok \in BOOLEAN : RemoveDone(i, ok)
    \/ \E i \in CallIds : InsertIssued(i)
    \/ \E i \in CallIds : InsertNoConnection(i)
    \/ \E i \in CallIds, ok \in BOOLEAN, c \in Names : \E n \in 0..Len(calls[i].batch[c]) : InsertDone(i, ok, c, n)
    \/ \E i \in CallIds, ok \in BOOLEAN : DropDatabaseDone(i, ok)
    \/ \E i \in CallIds : DropDatabaseNoConnection(i)
    \/ \E i \in CallIds : CloseIssued(i)
    \/ \E i \in CallIds : CloseNoConnection(i)
    \/ \E i \in CallIds, ok \in BOOLEAN : CloseDone(i, ok)

SpecConnect == Init /\ [][NextConnect]_vars

\* FixtureSets that name the same collection with different documents, and
\* one that names a system collection
SharedInputs == {ObjectInput(SouthparkOnly), ObjectInput(SouthparkStan), ObjectInput(WithSystem)}

\* clearAndLoad calls made without waiting for one another
NextOverlap ==
    \/ \E i \in CallIds, f \in SharedInputs : ClearAndLoadOverlapped(i, f)
    \/ \E i \in CallIds : FixturesResolved(i)
    \/ \E ok \in BOOLEAN : OpenDone(ok)
    \/ \E i \in CallIds, order \in UNION {Enumerations(S) : S \in SUBSET Names} : ListDone(i, order)
    \/ \E i \in CallIds : ListFailed(i)
    \/ \E i \in CallIds, ok \in BOOLEAN : RemoveDone(i, ok)
    \/ \E i \in CallIds : InsertIssued(i)
    \/ \E i \in CallIds, ok \in BOOLEAN, c \in Names : \E n \in 0..Len(calls[i].batch[c]) : InsertDone(i, ok, c, n)

SpecOverlap == Init /\ [][NextOverlap]_vars

\* load, clear and clearAndLoad called, without waiting for one another, on
\* a loader constructed with credentials
NextAuth ==
    \/ \E i \in CallIds : LoadOverlapped(i, ObjectInput(SouthparkOnly))
    \/ \E i \in CallIds : ClearAndLoadOverlapped(i, ObjectInput(SouthparkOnly))
    \/ \E i \in CallIds : ClearOverlapped(i, ClearNoArg)
    \/ \E i \in CallIds : FixturesResolved(i)
    \/ \E ok \in BOOLEAN : OpenDone(ok)
    \/ \E ok \in BOOLEAN : AuthenticateDone(ok)
    \/ \E i \in CallIds, order \in UNION {Enumerations(S) : S \in SUBSET Names} : ListDone(i, order)
    \/ \E i \in CallIds : ListFailed(i)
    \/ \E i \in CallIds, ok \in BOOLEAN : RemoveDone(i, ok)
    \/ \E i \in CallIds : InsertIssued(i)
    \/ \E i \in CallIds : InsertNoConnection(i)
    \/ \E i \in CallIds, ok \in BOOLEAN, c \in Names : \E n \in 0..Len(calls[i].batch[c]) : InsertDone(i, ok, c, n)

SpecAuth == InitCredentials /\ [][NextAuth]_vars

\* fixtures and collection names given to the callback-based clearAndLoad
CbInputs ==
    {ObjectInput(SouthparkOnly), ObjectInput(BothColls), NumberInput,
     PathInput("missing"), PathInput("southpark2.js")}
CbClearArgs == {ClearNoArg, ClearString(Southpark)}

\* clearAndLoad on the callback-based Loader
NextCallback ==
    \/ \E i \in CallIds, arg \in CbClearArgs, f \in CbInputs : CbClearAndLoad(i, arg, f)
    \/ \E i \in CallIds, ok \in BOOLEAN : CbOpened(i, ok)
    \/ \E i \in CallIds, ok \in BOOLEAN : CbDropDatabaseDone(i, ok)
    \/ \E i \in CallIds, c \in Names, ok \in BOOLEAN : CbDropDone(i, c, ok)
    \/ \E i \in CallIds : CbStatDone(i)
    \/ \E i \in CallIds, ok \in BOOLEAN : CbLoadOpened(i, ok)
    \/ \E i \in CallIds, c \in Names, ok \in BOOLEAN : \E n \in 0..Len(calls[i].batch[c]) : CbInsertDone(i, c, ok, n)

SpecCallback == Init /\ [][NextCallback]_vars

\* what the mongoskin Loader is given to load
SkinInputs ==
    {ObjectInput(EmptySet), ObjectInput(SouthparkOnly), ObjectInput(BothColls),
     ObjectInput(KeyedArcher), NumberInput, PathInput("missing"), PathInput("southpark2.js"),
     PathInput("shared"), PathInput("empty")}

\* load on the mongoskin Loader
NextSkin ==
    \/ \E i \in CallIds, f \in SkinInputs : SkinLoad(i, f)
    \/ \E i \in CallIds : SkinStatDone(i)
    \/ \E i \in CallIds, order \in Enumerations(DOMAIN SharedDir.children) \cup {<<>>} : SkinDirListed(i, order)
    \/ \E i \in CallIds, ok \in BOOLEAN : \E k \in 1..Len(calls[i].jobs) : SkinRemoveDone(i, k, ok)
    \/ \E i \in CallIds, ok \in BOOLEAN : \E k \in 1..Len(calls[i].jobs) :
          \E n \in 0..Len(calls[i].jobs[k].items) : SkinInsertDone(i, k, ok, n)

SpecSkin == Init /\ [][NextSkin]_vars

\* what the filesystem and the driver answer to the mongoskin Loader
SkinCompletions ==
    \/ \E i \in CallIds : SkinStatDone(i)
    \/ \E i \in CallIds, order \in Enumerations(DOMAIN SharedDir.children) \cup {<<>>} : SkinDirListed(i, order)
    \/ \E i \in CallIds, ok \in BOOLEAN : \E k \in 1..Len(calls[i].jobs) : SkinRemoveDone(i, k, ok)
    \/ \E i \in CallIds, ok \in BOOLEAN : \E k \in 1..Len(calls[i].jobs) :
          \E n \in 0..Len(calls[i].jobs[k].items) : SkinInsertDone(i, k, ok, n)

\* fixtures of the mongoskin loads whose callback is awaited
SkinLiveInputs ==
    {ObjectInput(EmptySet), ObjectInput(SouthparkOnly), ObjectInput(BothColls),
     PathInput("missing"), PathInput("shared"), PathInput("empty")}

\* load on the mongoskin Loader, every filesystem and driver request being
\* eventually answered
NextSkinLive ==
    \/ \E i \in CallIds, f \in SkinLiveInputs : SkinLoad(i, f)
    \/ SkinCompletions

SpecSkinLive == Init /\ [][NextSkinLive]_vars /\ WF_vars(SkinCompletions)

\* createObjectId and the identifiers it hands out
NextObjectId ==
    \/ \E i \in CallIds, id \in IdArguments, h \in Hexes : CreateObjectId(i, id, h)
    \/ \E r \in DOMAIN objects, h \in Hexes : MutateId(r, h)

SpecObjectId == Init /\ [][NextObjectId]_vars

\* fixture inputs of the calls whose completion is followed
LiveInputs == {ObjectInput(SouthparkOnly), PathInput("missing")}

\* what the filesystem, the driver and the modifiers answer, and the
\* continuations the promise library runs
Completions ==
    \/ \E i \in CallIds : FixturesResolved(i)
    \/ \E ok \in BOOLEAN : OpenDone(ok)
    \/ \E i \in CallIds, order \in UNION {Enumerations(S) : S \in SUBSET Names} : ListDone(i, order)
    \/ \E i \in CallIds : ListFailed(i)
    \/ \E i \in CallIds, ok \in BOOLEAN : RemoveDone(i, ok)
    \/ \E i \in CallIds, c \in Names, ok \in BOOLEAN : \E j \in DOMAIN calls[i].chain[c] : ModifierDone(i, c, j, ok)
    \/ \E i \in CallIds : InsertIssued(i)
    \/ \E i \in CallIds : InsertNoConnection(i)
    \/ \E i \in CallIds, ok \in BOOLEAN, c \in Names : \E n \in 0..Len(calls[i].batch[c]) : InsertDone(i, ok, c, n)

\* the calls are made one after the other; every request that is
\* outstanding is eventually answered
NextLive ==
    \/ AddModifier("m1")
    \/ \E i \in CallIds, f \in LiveInputs : Load(i, f)
    \/ \E i \in CallIds : ClearAndLoad(i, ObjectInput(SouthparkOnly))
    \/ \E i \in CallIds : ClearAllAndLoad(i, ObjectInput(SouthparkOnly))
    \/ \E i \in CallIds : ClearOp(i, ClearNoArg)
    \/ Completions

SpecLive == Init /\ [][NextLive]_vars /\ WF_vars(Completions)

(* ====================================================================== *)
(* Properties                                                              *)
(* ====================================================================== *)
IsSystem(c) == StartsWith(c, SystemPrefix)

\* the document the modifier chain mods makes of d for collection c
RECURSIVE ApplyChain(_, _, _)
ApplyChain(mods, c, d) ==
    IF Len(mods) = 0 THEN d ELSE ApplyChain(Tail(mods), c, Modify(Head(mods), c, d))

\* the batch the FixtureSet F describes for collection c, after the chain
ExpectedBatch(F, c) ==
    LET items == Items(DataOf(F, c))
    IN [j \in 1..Len(items) |-> ApplyChain(modifiers, c, items[j])]

Succeeded(call) == call.pc = "done" /\ call.outcome.st = "ok"
Failed(call) == call.pc = "done" /\ call.outcome.st = "err"

\* C1: clearAndLoad(F) issues no remove and no insert on a collection that
\* is not a key of the resolved FixtureSet F, and every such collection
\* holds, during and after the call, the documents it held before the call,
\* whether the call succeeds or fails.
C1_ClearAndLoadFrame ==
    \A i \in CallIds :
        LET call == calls[i]
        IN call.op = "clearAndLoad" =>
              \A c \in Names :
                  (call.resolution # "ok" \/ c \notin KeySet(call.data)) =>
                      /\ c \notin call.removeIssued
                      /\ c \notin call.insertIssued
                      /\ docs[c] = call.beforeDocs[c]
                      /\ (c \in exist <=> c \in call.beforeExist)

\* a clearAndLoad that removed and inserted has settled while a collection
\* outside its FixtureSet still holds documents
C1_Witness ==
    \E i \in CallIds :
        /\ calls[i].op = "clearAndLoad"
        /\ calls[i].pc = "done"
        /\ calls[i].removeOK # {}
        /\ calls[i].insertOK # {}
        /\ \E c \in Names \ KeySet(calls[i].data) : ~IsSystem(c) /\ docs[c] # <<>>

\* C2 (as stated): after a clearAndLoad(F) that succeeds, every collection c
\* that is a key of F holds exactly the documents F[c] yields through the
\* modifier chain, in F[c]'s order, and none it held before.
C2_ClearAndLoadResult_AsStated ==
    \A i \in CallIds :
        (calls[i].op = "clearAndLoad" /\ Succeeded(calls[i])) =>
            \A c \in KeySet(calls[i].data) : docs[c] = ExpectedBatch(calls[i].data, c)

\* C2 (amended): after a clearAndLoad(F) that succeeds, every collection c
\* that is a key of F and whose name does not begin with 'system.' holds
\* exactly the documents F[c] yields through the modifier chain, in F[c]'s
\* order, and none it held before; a key beginning with 'system.' is not
\* cleared, so it holds what it held before followed by those documents.
C2_ClearAndLoadResult ==
    \A i \in CallIds :
        (calls[i].op = "clearAndLoad" /\ Succeeded(calls[i])) =>
            \A c \in KeySet(calls[i].data) :
                docs[c] = (IF IsSystem(c) THEN calls[i].beforeDocs[c] ELSE <<>>)
                              \o ExpectedBatch(calls[i].data, c)

\* a successful clearAndLoad, with modifiers registered, replaced the
\* documents a collection of its FixtureSet held before
C2_Witness ==
    \E i \in CallIds :
        /\ calls[i].op = "clearAndLoad"
        /\ Succeeded(calls[i])
        /\ Len(modifiers) > 0
        /\ \E c \in KeySet(calls[i].data) :
              ~IsSystem(c) /\ calls[i].beforeDocs[c] # <<>> /\ Len(docs[c]) = 2

\* the collections the clear phase of the call is meant to empty
ClearScope(call, c) ==
    /\ c \in call.beforeExist
    /\ ~IsSystem(c)
    /\ (call.op = "clearAllAndLoad" \/ c \in KeySet(call.data))

\* C3: within one clearAndLoad or clearAllAndLoad call no insert is issued
\* until the remove of every collection the call clears has completed
\* successfully and no remove of the call is outstanding.
C3_ClearBeforeLoadBarrier ==
    \A i \in CallIds :
        LET call == calls[i]
        IN (call.op \in {"clearAndLoad", "clearAllAndLoad"} /\ call.insertIssued # {}) =>
              /\ call.listed
              /\ call.removeIssued = call.removeOK
              /\ \A c \in Names : ClearScope(call, c) => c \in call.removeOK

\* an insert was issued after the removes of two collections had completed
C3_Witness ==
    \E i \in CallIds :
        /\ calls[i].op \in {"clearAndLoad", "clearAllAndLoad"}
        /\ calls[i].insertIssued # {}
        /\ Cardinality(calls[i].removeOK) >= 2

\* C4 (as stated): after a clearAllAndLoad(F) that succeeds, every
\* non-system collection that is not a key of F holds no document and
\* every collection that is a key of F holds exactly the documents of F.
C4_ClearAllAndLoadResult_AsStated ==
    \A i \in CallIds :
        (calls[i].op = "clearAllAndLoad" /\ Succeeded(calls[i])) =>
            \A c \in Names :
                /\ (~IsSystem(c) /\ c \notin KeySet(calls[i].data)) => docs[c] = <<>>
                /\ c \in KeySet(calls[i].data) => docs[c] = ExpectedBatch(calls[i].data, c)

\* C4 (amended): after a clearAllAndLoad(F) that succeeds, every non-system
\* collection that is not a key of F holds no document, every non-system
\* key of F holds exactly the documents of F (as the modifier chain returns
\* them), and a key of F beginning with 'system.' holds what it held
\* before followed by the documents of F.
C4_ClearAllAndLoadResult ==
    \A i \in CallIds :
        (calls[i].op = "clearAllAndLoad" /\ Succeeded(calls[i])) =>
            \A c \in Names :
                /\ (~IsSystem(c) /\ c \notin KeySet(calls[i].data)) => docs[c] = <<>>
                /\ c \in KeySet(calls[i].data) =>
                      docs[c] = (IF IsSystem(c) THEN calls[i].beforeDocs[c] ELSE <<>>)
                                    \o ExpectedBatch(calls[i].data, c)

\* a successful clearAllAndLoad emptied a populated collection outside its
\* FixtureSet and loaded one inside it
C4_Witness ==
    \E i \in CallIds :
        /\ calls[i].op = "clearAllAndLoad"
        /\ Succeeded(calls[i])
        /\ \E c \in Names \ KeySet(calls[i].data) :
              ~IsSystem(c) /\ calls[i].beforeDocs[c] # <<>> /\ docs[c] = <<>>
        /\ \E c \in KeySet(calls[i].data) : ~IsSystem(c) /\ docs[c] # <<>>

\* C5: when resolving the fixture input of load, clearAndLoad or
\* clearAllAndLoad fails, the call reports that error, has issued no remove
\* and no insert, and the database is as it was before the call.
C5_ResolutionFailureTouchesNothing ==
    \A i \in CallIds :
        calls[i].resolution = "err" =>
            /\ calls[i].outcome = Rejected(fixturesLoader(calls[i].input).err)
            /\ calls[i].removeIssued = {}
            /\ calls[i].insertIssued = {}
            /\ docs = calls[i].beforeDocs
            /\ exist = calls[i].beforeExist

\* C6: if a remove of the clear phase of clearAndLoad or clearAllAndLoad
\* fails, the call reports failure and issues no insert (and starts no
\* modifier).
C6_ClearFailureAbortsLoad ==
    \A i \in CallIds :
        (calls[i].op \in {"clearAndLoad", "clearAllAndLoad"} /\ calls[i].removeFailed # {}) =>
            /\ Failed(calls[i])
            /\ calls[i].outcome.err.type = "remove"
            /\ calls[i].insertIssued = {}
            /\ calls[i].stepStarted = {}

\* the second remove of a clear phase failed after the first had succeeded
C6_Witness ==
    \E i \in CallIds :
        /\ calls[i].op \in {"clearAndLoad", "clearAllAndLoad"}
        /\ calls[i].removeFailed # {}
        /\ calls[i].removeOK # {}
        /\ KeySet(calls[i].data) # {} \/ calls[i].op = "clearAllAndLoad"

\* C7: for every document of every collection whose insert is issued, each
\* registered modifier was invoked exactly once, in registration order,
\* with the collection's name and with the output of the previous modifier
\* (the first with the original document); the document inserted is the
\* output of the last modifier.
C7_ModifierChainPerDocument ==
    \A i \in CallIds : \A c \in calls[i].insertIssued :
        LET call == calls[i]
            items == Items(DataOf(call.data, c))
        IN /\ Len(call.chain[c]) = Len(items)
           /\ Len(call.batch[c]) = Len(items)
           /\ \A j \in 1..Len(items) :
                 LET invs == call.chain[c][j].invs
                     n == Len(invs)
                 IN /\ n = Len(modifiers)
                    /\ \A k \in 1..n :
                          /\ invs[k].mod = modifiers[k]
                          /\ invs[k].coll = c
                          /\ invs[k].doc =
                                IF k = 1 THEN items[j]
                                ELSE Modify(invs[k - 1].mod, invs[k - 1].coll, invs[k - 1].doc)
                    /\ call.batch[c][j] =
                          IF n = 0 THEN items[j]
                          ELSE Modify(invs[n].mod, invs[n].coll, invs[n].doc)

\* a batch of two documents was inserted after two modifiers ran on each
C7_Witness ==
    \E i \in CallIds : \E c \in calls[i].insertOK :
        /\ Len(modifiers) = 2
        /\ Len(calls[i].batch[c]) = 2

\* C8: if a modifier fails for a document of collection c, the call
\* reports failure and no insert is issued for c in that call.
C8_ModifierFailureBlocksInsert ==
    \A i \in CallIds : \A k \in 1..Len(calls[i].errors) :
        calls[i].errors[k].type = "modifier" =>
            /\ Failed(calls[i])
            /\ calls[i].errors[k].coll \notin calls[i].insertIssued

\* a modifier failed for one document of a collection while the chain of
\* another document of that collection ran to its end
C8_Witness ==
    \E i \in CallIds : \E c \in Names : \E j, k \in DOMAIN calls[i].chain[c] :
        /\ calls[i].chain[c][j].st = "failed"
        /\ calls[i].chain[c][k].st = "done"
        /\ Len(modifiers) > 0

\* C9: when the insert of one collection of a FixtureSet is rejected, load
\* reports the failure and the modify+insert step of every other
\* collection of the FixtureSet is still carried out.
C9_InsertFailureAbortsOneCollection ==
    \A i \in CallIds :
        LET call == calls[i]
        IN (call.op = "load" /\ call.pc = "done" /\ Quiet(call) /\ call.insertFailed # {}) =>
              /\ call.outcome.st = "err"
              /\ \A c \in KeySet(call.data) \ call.insertFailed : c \in call.stepStarted

\* C10: load reports success if and only if the modify+insert step of
\* every collection of the FixtureSet succeeded; otherwise it reports the
\* first error that occurred among those steps.
C10_LoadOutcome ==
    \A i \in CallIds :
        LET call == calls[i]
        IN (call.op = "load" /\ call.pc = "done" /\ call.resolution = "ok") =>
              /\ call.outcome.st = "ok" <=> KeySet(call.data) \subseteq call.insertOK
              /\ call.outcome.st = "ok" <=> call.errors = <<>>
              /\ call.outcome.st = "err" =>
                    call.errors # <<>> /\ call.outcome.err = call.errors[1]

\* a load has failed and two of its steps' errors occurred one after the other
C10_Witness ==
    \E i \in CallIds :
        /\ calls[i].op = "load"
        /\ Failed(calls[i])
        /\ Len(calls[i].errors) >= 2
        /\ calls[i].errors[1] # calls[i].errors[2]

\* C11: one load, clearAndLoad or clearAllAndLoad call issues at most one
\* insert per collection name, also when the input is a directory in which
\* several files contribute documents to the same collection.
C11_OneInsertPerCollection ==
    \A i \in CallIds : \A c \in Names : calls[i].inserts[c] <= 1

\* the directory in which two files export southpark was loaded: one
\* insert carried the documents of both files
C11_Witness ==
    \E i \in CallIds :
        /\ IsDirectory(calls[i].input)
        /\ Southpark \in calls[i].insertOK
        /\ Len(calls[i].batch[Southpark]) = 2

\* what the directory entry named n contributes to collection c
Contribution(dir, n, c) ==
    LET node == dir.children[n]
    IN IF node.type = "file" /\ c \in KeySet(node.exports)
       THEN Items(DataOf(node.exports, c))
       ELSE <<>>

\* the contributions to c of the entries listed, concatenated in that order
RECURSIVE Concatenation(_, _, _)
Concatenation(dir, listing, c) ==
    IF Len(listing) = 0 THEN <<>>
    ELSE Contribution(dir, Head(listing), c) \o Concatenation(dir, Tail(listing), c)

\* C12: for a directory input, the collections of the resolved FixtureSet
\* are those exported by some file of the directory, each once, and the
\* batch of each is the concatenation of the batches the files contribute,
\* in the order of the directory listing, whatever the order in which the
\* stats answered.
C12_DirectoryMerge ==
    \A i \in CallIds :
        LET call == calls[i]
            dir == FileSystem[call.input.path]
        IN (IsDirectory(call.input) /\ call.resolution = "ok") =>
              /\ KeySet(call.data) =
                    {c \in Names : \E n \in DOMAIN dir.children :
                                      dir.children[n].type = "file"
                                      /\ c \in KeySet(dir.children[n].exports)}
              /\ Cardinality(KeySet(call.data)) = Len(call.data)
              /\ \A c \in KeySet(call.data) :
                    Items(DataOf(call.data, c)) = Concatenation(dir, call.listing, c)

\* a directory was resolved whose two files answered their stats in the
\* order opposite to the listing
C12_Witness ==
    \E i \in CallIds :
        /\ IsDirectory(calls[i].input)
        /\ calls[i].resolution = "ok"
        /\ \E x, y \in 1..Len(calls[i].statOrder) :
              /\ x < y
              /\ calls[i].statOrder[x] > calls[i].statOrder[y]
              /\ FileSystem[calls[i].input.path].children[calls[i].listing[calls[i].statOrder[x]]].type = "file"
              /\ FileSystem[calls[i].input.path].children[calls[i].listing[calls[i].statOrder[y]]].type = "file"

\* the exports of the entries listed that are not directories
RECURSIVE ExportsOfFiles(_, _)
ExportsOfFiles(dir, listing) ==
    IF Len(listing) = 0 THEN <<>>
    ELSE IF dir.children[Head(listing)].type = "dir" THEN ExportsOfFiles(dir, Tail(listing))
    ELSE <<dir.children[Head(listing)].exports>> \o ExportsOfFiles(dir, Tail(listing))

\* C13: an entry of the directory that is itself a directory never makes
\* the resolution fail and contributes nothing: the resolved FixtureSet is
\* the one the same listing without the directories resolves to.
C13_SubdirectoriesSkipped ==
    \A i \in CallIds :
        LET call == calls[i]
            dir == FileSystem[call.input.path]
        IN IsDirectory(call.input) =>
              /\ call.resolution # "err"
              /\ call.resolution = "ok" =>
                    call.data = DirectoryToObject(ExportsOfFiles(dir, call.listing))

\* a directory that lists a subdirectory between its files was resolved
C13_Witness ==
    \E i \in CallIds :
        /\ IsDirectory(calls[i].input)
        /\ calls[i].resolution = "ok"
        /\ Len(calls[i].listing) = 3
        /\ FileSystem[calls[i].input.path].children[calls[i].listing[2]].type = "dir"
        /\ calls[i].statOrder[1] = 2

\* C14: with no modifier registered, a successful load of {a: {k1: d1, ...,
\* kn: dn}} into an empty collection a leaves in a exactly the documents
\* d1, ..., dn that the load of the array [d1, ..., dn] inserts; the keys
\* are not stored.
C14_KeyedMappingAsArray ==
    \A i \in CallIds :
        LET call == calls[i]
        IN (call.op = "load" /\ Succeeded(call) /\ Len(modifiers) = 0) =>
              \A c \in KeySet(call.data) :
                  LET data == DataOf(call.data, c)
                  IN (data.kind = "object" /\ call.beforeDocs[c] = <<>>) =>
                        /\ Len(docs[c]) = Len(data.entries)
                        /\ \A k \in 1..Len(data.entries) : docs[c][k] = data.entries[k].val

\* a keyed mapping of two documents was loaded into an empty collection
C14_Witness ==
    \E i \in CallIds :
        /\ calls[i].op = "load"
        /\ Succeeded(calls[i])
        /\ Len(modifiers) = 0
        /\ \E c \in KeySet(calls[i].data) :
              /\ DataOf(calls[i].data, c).kind = "object"
              /\ calls[i].beforeDocs[c] = <<>>
              /\ Len(docs[c]) = 2

\* C15: with no modifier registered, load({a: [d1, ..., dn]}) issues for a
\* one insert whose batch is exactly [d1, ..., dn], in that order.
C15_ArrayBatchInserted ==
    \A i \in CallIds :
        LET call == calls[i]
        IN (call.op = "load" /\ Len(modifiers) = 0) =>
              \A c \in call.insertIssued :
                  DataOf(call.data, c).kind = "array" =>
                      /\ call.batch[c] = DataOf(call.data, c).items
                      /\ call.inserts[c] = 1

\* the insert of an array of two documents was issued by a load
C15_Witness ==
    \E i \in CallIds : \E c \in calls[i].insertIssued :
        /\ calls[i].op = "load"
        /\ Len(modifiers) = 0
        /\ DataOf(calls[i].data, c).kind = "array"
        /\ Len(calls[i].batch[c]) = 2

\* C16: a load whose input is neither a mapping nor a string (a number, a
\* boolean, undefined, null) fails with an error, opens no connection and
\* issues no remove and no insert.
C16_UnsupportedInputRejected ==
    \A i \in CallIds :
        LET call == calls[i]
        IN (call.op = "load" /\ call.input.kind \in {"number", "boolean", "undefined", "null"}) =>
              /\ call.pc = "done" => call.outcome.st = "err"
              /\ opens = call.beforeOpens
              /\ call.removeIssued = {}
              /\ call.insertIssued = {}

\* C17: when the value a fixture file exports is not an object/mapping,
\* load and clearAndLoad fail with an error and issue no remove and no
\* insert.
C17_MalformedExportRejected ==
    \A i \in CallIds :
        LET call == calls[i]
        IN (/\ call.op \in {"load", "clearAndLoad"}
            /\ call.input.kind = "string"
            /\ FileSystem[call.input.path].type = "file"
            /\ FileSystem[call.input.path].shape # "object") =>
              /\ call.pc = "done" => call.outcome.st = "err"
              /\ call.removeIssued = {}
              /\ call.insertIssued = {}

\* the names a clear call was given
Named(call) == SeqToSet(NameList(call.arg))

\* C18: after clear() without collection names succeeds, every collection
\* whose name does not begin with 'system.' holds no document; and no clear
\* call issues a remove on a collection whose name begins with 'system.',
\* also when that name is passed to it.
C18_ClearAll ==
    \A i \in CallIds :
        LET call == calls[i]
        IN call.op = "clear" =>
              /\ (NoNames(call.arg) /\ Succeeded(call)) =>
                    \A c \in Names : ~IsSystem(c) => docs[c] = <<>>
              /\ \A c \in Names :
                    IsSystem(c) => c \notin call.removeIssued /\ docs[c] = call.beforeDocs[c]

\* clear() emptied two populated collections and left the populated system
\* collection alone
C18_Witness ==
    \E i \in CallIds :
        /\ calls[i].op = "clear"
        /\ NoNames(calls[i].arg)
        /\ Succeeded(calls[i])
        /\ Cardinality(calls[i].removeOK) = 2
        /\ docs[SystemJs] # <<>>

\* C19 (as stated): after clear(name) or clear([names]) succeeds, each
\* named collection holds no document and every collection not named holds
\* exactly the documents it held before.
C19_ClearNamed_AsStated ==
    \A i \in CallIds :
        LET call == calls[i]
        IN (call.op = "clear" /\ ~NoNames(call.arg) /\ Succeeded(call)) =>
              \A c \in Names :
                  IF c \in Named(call) THEN docs[c] = <<>> ELSE docs[c] = call.beforeDocs[c]

\* C19 (amended): after clear(name) or clear([names]) succeeds, each named
\* collection whose name does not begin with 'system.' holds no document,
\* and every other collection (not named, or named with a name beginning
\* with 'system.') holds exactly the documents it held before.
C19_ClearNamed ==
    \A i \in CallIds :
        LET call == calls[i]
        IN (call.op = "clear" /\ ~NoNames(call.arg) /\ Succeeded(call)) =>
              \A c \in Names :
                  IF c \in Named(call) /\ ~IsSystem(c)
                  THEN docs[c] = <<>>
                  ELSE docs[c] = call.beforeDocs[c] /\ c \notin call.removeIssued

\* clear('archer') emptied archer while southpark kept its documents
C19_Witness ==
    \E i \in CallIds :
        /\ calls[i].op = "clear"
        /\ calls[i].arg = ClearString(Archer)
        /\ Succeeded(calls[i])
        /\ calls[i].beforeDocs[Archer] # <<>>
        /\ docs[Archer] = <<>>
        /\ docs[Southpark] # <<>>

\* C20: a clear, on the promise-based or on the callback-based Loader, that
\* is given a name matching no existing collection does not fail on
\* account of that name (it succeeds unless the connection or the clearing
\* of an existing collection fails), changes no collection on account of
\* it, and, when it succeeds, has emptied the named collections that exist.
C20_ClearOfMissingCollection ==
    \A i \in CallIds :
        LET call == calls[i]
            missing == Named(call) \ call.beforeExist
        IN (/\ call.op \in {"clear", "cbClear"}
            /\ ~NoNames(call.arg)
            /\ missing # {}
            /\ call.pc = "done"
            /\ Quiet(call)) =>
              /\ call.outcome.st = "err" =>
                    \/ call.outcome.err.type = "connect"
                    \/ (call.outcome.err.type \in {"remove", "drop"}
                            /\ call.outcome.err.coll \in call.beforeExist)
              /\ \A c \in missing :
                    /\ docs[c] = <<>>
                    /\ c \notin exist
                    /\ c \notin call.removeIssued \cup call.dropped \cup call.removeFailed
              /\ call.outcome.st = "ok" =>
                    \A c \in Named(call) \cap call.beforeExist :
                        (call.op = "cbClear" \/ ~IsSystem(c)) => docs[c] = <<>>

\* the callback-based clear(['archer', 'southpark']) succeeded on a
\* database without southpark and dropped archer
C20_Witness ==
    \E i \in CallIds :
        /\ calls[i].op = "cbClear"
        /\ calls[i].arg = ClearList(<<Archer, Southpark>>)
        /\ Southpark \notin calls[i].beforeExist
        /\ Succeeded(calls[i])
        /\ Archer \in calls[i].dropped

\* C21: a clear call over several collections reports success only if the
\* remove of every targeted collection succeeded; if a remove fails, clear
\* reports failure with the first error encountered (that remove's: no
\* further remove is issued after it).
C21_ClearOutcome ==
    \A i \in CallIds :
        LET call == calls[i]
        IN call.op = "clear" =>
              /\ Succeeded(call) =>
                    /\ call.removeFailed = {}
                    /\ call.removeIssued = call.removeOK
                    /\ \A c \in call.beforeExist :
                          (~IsSystem(c) /\ (NoNames(call.arg) \/ c \in Named(call))) =>
                              c \in call.removeOK
              /\ call.removeFailed # {} =>
                    /\ Failed(call)
                    /\ \E c \in call.removeFailed :
                          /\ call.removeFailed = {c}
                          /\ call.outcome.err = RemoveErr(c)
                          /\ call.removeIssued = call.removeOK \cup {c}

\* a clear of two collections failed on the second remove after the first
\* had succeeded
C21_Witness ==
    \E i \in CallIds :
        /\ calls[i].op = "clear"
        /\ Failed(calls[i])
        /\ Len(calls[i].targets) = 2
        /\ calls[i].removeOK # {}
        /\ calls[i].removeFailed # {}

\* C22: over any sequence and any interleaving of load, clear, clearAndLoad,
\* clearAllAndLoad, dropDatabase and close calls on one loader, the driver's
\* open is invoked at most once (also when calls start before the first open
\* has completed, after a failed open and after close), and the loader has
\* a connection exactly when that one open was issued.
C22_OpenAtMostOnce ==
    /\ opens <= 1
    /\ client # "none" <=> opens = 1
    /\ \A i \in CallIds :
          (calls[i].removeIssued # {} \/ calls[i].insertIssued # {} \/ calls[i].closeIssued) =>
              opens = 1 /\ ClientFulfilled(client)

\* after close, a later call has been made on the loader and has settled,
\* and the only open is the first one
C22_Witness ==
    /\ client = "closed"
    /\ opens = 1
    /\ \E i, j \in CallIds :
          /\ calls[i].op = "close"
          /\ Succeeded(calls[i])
          /\ calls[j].op \in {"load", "clear", "clearAndLoad", "clearAllAndLoad", "dropDatabase"}
          /\ calls[j].beforeClient = "closed"
          /\ calls[j].pc = "done"
          /\ calls[j].listed \/ calls[j].insertIssued # {}

\* C23: close called on a loader on which no connection was ever requested
\* fails with the no-connection error, invokes neither the driver's open nor
\* its close, and leaves the loader without a connection.
C23_CloseWithoutConnection ==
    /\ [](\A i \in CallIds :
            (calls[i].op = "close" /\ calls[i].beforeClient = "none") =>
                /\ calls[i].outcome = Rejected(NoConnectionErr)
                /\ calls[i].pc = "done"
                /\ ~calls[i].closeIssued)
    /\ [][\A i \in CallIds :
            (/\ client = "none"
             /\ started' = started + 1
             /\ calls'[i] # calls[i]
             /\ calls'[i].op = "close") =>
                /\ calls'[i].outcome = Rejected(NoConnectionErr)
                /\ opens' = opens
                /\ client' = "none"]_vars

\* close was the first call made on the loader and has failed
C23_Witness ==
    \E i \in CallIds :
        /\ calls[i].op = "close"
        /\ calls[i].beforeClient = "none"
        /\ Failed(calls[i])
        /\ started = 1
        /\ opens = 0

\* a load of the empty FixtureSet that has completed
EmptyLoadDone(call) ==
    call.op = "load" /\ call.input = ObjectInput(EmptySet) /\ call.pc = "done"

\* C24: load of an empty FixtureSet ({}) completes successfully and issues
\* no remove and no insert, and a close called after it has completed does
\* not fail with the no-connection error.
C24_EmptyLoadThenClose ==
    /\ [](\A i \in CallIds :
            EmptyLoadDone(calls[i]) =>
                /\ calls[i].outcome = Fulfilled
                /\ calls[i].removeIssued = {}
                /\ calls[i].insertIssued = {}
                /\ client # "none")
    /\ [][\A i, j \in CallIds :
            (/\ EmptyLoadDone(calls[j])
             /\ started' = started + 1
             /\ calls'[i] # calls[i]
             /\ calls'[i].op = "close") =>
                calls'[i].outcome # Rejected(NoConnectionErr)]_vars

\* load({}) was the first call, it completed, and the close called next
\* has succeeded
C24_Witness ==
    \E i, j \in CallIds :
        /\ EmptyLoadDone(calls[j])
        /\ calls[j].beforeClient = "none"
        /\ calls[i].op = "close"
        /\ calls[i].beforeClient # "none"
        /\ Succeeded(calls[i])
        /\ started = 2

\* C25: if the connection cannot be opened or authenticated, every load,
\* clear, clearAndLoad and clearAllAndLoad call on that loader reports
\* failure, for every fixture input including an empty FixtureSet, and no
\* remove or insert is issued.
C25_ConnectionFailureFailsEveryCall ==
    \A i \in CallIds :
        LET call == calls[i]
        IN (/\ call.op \in {"load", "clear", "clearAndLoad", "clearAllAndLoad"}
            /\ client = "failed") =>
              /\ call.pc = "done" => call.outcome.st = "err"
              /\ call.removeIssued = {}
              /\ call.insertIssued = {}

\* C26: provided every filesystem, driver and modifier request eventually
\* completes, each load, clear, clearAndLoad and clearAllAndLoad call
\* eventually yields an outcome; the outcome is either success or one
\* error, and once yielded it never changes (the callback is invoked once).
C26_SingleOutcome ==
    /\ \A i \in CallIds : (calls[i].pc # "idle") ~> (calls[i].pc = "done")
    /\ [](\A i \in CallIds :
            /\ calls[i].pc = "done" <=> calls[i].outcome.st \in {"ok", "err"}
            /\ calls[i].outcome.st = "ok" <=> calls[i].outcome = Fulfilled
            /\ calls[i].outcome.st = "err" => calls[i].outcome.err # NoErr)
    /\ [][\A i \in CallIds :
            (calls[i].pc = "done" /\ started' = started) =>
                calls'[i].pc = "done" /\ calls'[i].outcome = calls[i].outcome]_vars

\* a clearAndLoad has reported the error of its modifier after its clear
\* phase had succeeded, and the call made before it had reported success
C26_Witness ==
    \E i \in CallIds :
        /\ calls[i].op = "clearAndLoad"
        /\ Failed(calls[i])
        /\ calls[i].removeOK # {}
        /\ calls[i].outcome.err.type = "modifier"
        /\ started = 2

\* C27: load only adds documents: it issues no remove and no drop, and
\* every document present in a collection before a load call is still
\* present, in place, during and after the call, whether it succeeds or
\* fails.
C27_LoadOnlyAdds ==
    \A i \in CallIds :
        LET call == calls[i]
        IN call.op = "load" =>
              /\ call.removeIssued = {}
              /\ call.dropped = {}
              /\ call.beforeExist \subseteq exist
              /\ \A c \in Names :
                    /\ Len(docs[c]) >= Len(call.beforeDocs[c])
                    /\ SubSeq(docs[c], 1, Len(call.beforeDocs[c])) = call.beforeDocs[c]

\* a load has failed after adding documents to a collection that was
\* populated before the call
C27_Witness ==
    \E i \in CallIds :
        /\ calls[i].op = "load"
        /\ Failed(calls[i])
        /\ \E c \in Names :
              /\ calls[i].beforeDocs[c] # <<>>
              /\ Len(docs[c]) > Len(calls[i].beforeDocs[c])

\* C28: createObjectId called with an existing identifier x returns an
\* identifier whose canonical string equals x's and that is not the same
\* instance as x, so that a later mutation of one does not affect the
\* other.
C28_ObjectIdClone ==
    \A i \in CallIds :
        LET call == calls[i]
        IN (call.op = "createObjectId" /\ call.idArg.kind = "objectid") =>
              /\ Succeeded(call)
              /\ call.idResultHex = call.idArgHex
              /\ call.idResult # call.idArg.ref

\* C29: on the callback-based Loader every error is surfaced to the
\* caller: when the load step of clearAndLoad fails (resolution, connection
\* or insert error), the callback of clearAndLoad is invoked with that
\* error and not with success.
C29_CallbackLoadErrorSurfaced ==
    \A i \in CallIds :
        LET call == calls[i]
        IN (call.op = "cbClearAndLoad" /\ call.pc = "done" /\ call.loadErr # NoErr) =>
              call.outcome = Rejected(call.loadErr)

\* C30: on the mongoskin Loader, loading fixtures clears the existing
\* contents of each collection being loaded: after any load call on a
\* loader has completed, the second and later calls on the same loader
\* included, every collection named in that call's fixtures contains only
\* documents of that call's fixtures.
C30_SkinLoadClears ==
    \A i \in CallIds :
        LET call == calls[i]
        IN (call.op = "skinLoad" /\ Succeeded(call) /\ Quiet(call)) =>
              \A c \in KeySet(call.data) :
                  \A k \in 1..Len(docs[c]) :
                      \E j \in 1..Len(Items(DataOf(call.data, c))) :
                          docs[c][k] = Items(DataOf(call.data, c))[j]

\* C31: on the mongoskin Loader, provided every filesystem and driver
\* request eventually completes, load(data, callback) eventually invokes
\* callback, and invokes it exactly once, for every input: an empty object,
\* an empty directory and a FixtureSet in which the inserts of two or more
\* collections fail included.
C31_SkinCallbackExactlyOnce ==
    /\ [](\A i \in CallIds : calls[i].op = "skinLoad" => Len(calls[i].callbacks) <= 1)
    /\ \A i \in CallIds :
          (calls[i].op = "skinLoad") ~> (Len(calls[i].callbacks) = 1)

\* C32: on the mongoskin Loader, during the load of a directory in which two
\* files contribute documents to the same collection, the collection is
\* cleared at most once, and no document inserted from one file is removed
\* by the clearing another file triggered, whatever the order in which the
\* outstanding remove and insert requests are answered: when the load has
\* completed, the collection holds the documents of both files.
C32_SharedCollectionKeepsBothFiles ==
    \A i \in CallIds :
        LET call == calls[i]
        IN (call.op = "skinLoad" /\ call.isDir) =>
              /\ \A k, l \in 1..Len(call.jobs) :
                    (call.jobs[k].coll = call.jobs[l].coll
                        /\ call.jobs[k].clears /\ call.jobs[l].clears) => k = l
              /\ (Succeeded(call) /\ \A k \in 1..Len(call.jobs) : call.jobs[k].st = "ok") =>
                    \A k \in 1..Len(call.jobs) :
                        \A j \in 1..Len(call.jobs[k].items) :
                            \E d \in 1..Len(docs[call.jobs[k].coll]) :
                                docs[call.jobs[k].coll][d] = call.jobs[k].items[j]

\* C33: load never rolls back: after a load that reports failure because
\* of a modifier or insert error in one collection, the documents the call
\* already inserted for other collections remain in the database, each such
\* collection holding what it held before the call followed by the batch
\* inserted.
C33_LoadNeverRollsBack ==
    \A i \in CallIds :
        LET call == calls[i]
        IN (call.op = "load" /\ Failed(call)
               /\ call.outcome.err.type \in {"modifier", "insert"}) =>
              \A c \in call.insertOK :
                  /\ c # call.outcome.err.coll
                  /\ call.batch[c] = ExpectedBatch(call.data, c)
                  /\ docs[c] = call.beforeDocs[c] \o call.batch[c]

\* a load has reported the failure of one collection while another
\* collection of the same FixtureSet has been inserted
C33_Witness ==
    \E i \in CallIds :
        LET call == calls[i]
        IN /\ call.op = "load" /\ Failed(call)
           /\ call.outcome.err.type \in {"modifier", "insert"}
           /\ \E c \in call.insertOK :
                 /\ c # call.outcome.err.coll
                 /\ Len(call.batch[c]) > 0
                 /\ docs[c] = call.beforeDocs[c] \o call.batch[c]

\* the calls that run _loadData
Loads(call) == call.op \in {"load", "clearAndLoad", "clearAllAndLoad"}

\* modifier or insert work of collection c of the call is outstanding
Outstanding(call, c) ==
    \/ \E j \in 1..Len(call.chain[c]) : call.chain[c][j].st = "running"
    \/ c \in call.insertIssued \ (call.insertOK \cup call.insertFailed)

IssuesRequest(i) ==
    \/ calls'[i].removeIssued \ calls[i].removeIssued # {}
    \/ calls'[i].insertIssued \ calls[i].insertIssued # {}
    \/ \E c \in Names : calls'[i].inserts[c] > calls[i].inserts[c]

\* C35: on a loader constructed with credentials, no remove and no insert
\* is issued on the connection before authentication has completed
\* successfully; once authentication (or the opening) has failed it stays
\* failed, so no remove or insert is ever issued by that loader.
C35_NoRequestBeforeAuthentication ==
    [][/\ \A i \in CallIds : IssuesRequest(i) =>
             options.user # NoUser /\ authenticated /\ client = "open"
       /\ client = "failed" =>
             client' = "failed" /\ ~authenticated /\ \A i \in CallIds : ~IssuesRequest(i)]_vars

\* after a successful authentication a call has removed and inserted
C35_Witness ==
    /\ options.user # NoUser
    /\ authenticated
    /\ \E i \in CallIds :
          /\ Succeeded(calls[i])
          /\ calls[i].removeOK # {}
          /\ calls[i].insertOK # {}

\* C36: the batch inserted for a collection lists the modified documents in
\* the order of the input batch, position by position, even when the
\* modifiers of different documents of that batch run concurrently and
\* finish in another order.
C36_BatchKeepsInputOrder ==
    \A i \in CallIds :
        LET call == calls[i]
        IN Loads(call) =>
              \A c \in call.insertIssued :
                  LET items == Items(DataOf(call.data, c))
                  IN /\ Len(call.batch[c]) = Len(items)
                     /\ \A j \in 1..Len(items) :
                           call.batch[c][j] = ApplyChain(modifiers, c, items[j])

\* a batch was inserted whose second document finished its modifiers
\* before the first
C36_Witness ==
    \E i \in CallIds, c \in Names :
        /\ Loads(calls[i])
        /\ c \in calls[i].insertOK
        /\ Len(modifiers) > 0
        /\ calls[i].doneOrder[c] = <<2, 1>>
        /\ calls[i].batch[c][1] # calls[i].batch[c][2]

\* a clearAndLoad whose fixtures resolved to the empty FixtureSet
ClearAndLoadOfNothing(call) ==
    call.op = "clearAndLoad" /\ call.resolution = "ok" /\ Len(call.data) = 0

\* C37 (as the code behaves): clearAndLoad of an empty FixtureSet clears
\* nothing: it issues no remove and no insert and leaves every collection
\* unchanged (the empty list of names is never taken for 'all
\* collections'); it reports success when the connection is established,
\* and the connection error when it is not.
C37_ClearAndLoadOfNothing ==
    \A i \in CallIds :
        LET call == calls[i]
        IN ClearAndLoadOfNothing(call) =>
              /\ call.removeIssued = {} /\ call.insertIssued = {}
              /\ call.targets = <<>>
              /\ docs = call.beforeDocs /\ exist = call.beforeExist
              /\ call.pc = "done" =>
                    \/ client = "open" /\ call.listed /\ call.outcome = Fulfilled
                    \/ client = "failed" /\ ~call.listed /\ call.outcome = Rejected(ConnectErr)

\* clearAndLoad of the empty FixtureSet has succeeded on a database that
\* holds documents
C37_Witness ==
    \E i \in CallIds :
        /\ ClearAndLoadOfNothing(calls[i])
        /\ Succeeded(calls[i])
        /\ calls[i].listed
        /\ \A c \in calls[i].beforeExist : docs[c] # <<>>
        /\ calls[i].beforeExist = Names

\* C37 (as stated): clearAndLoad of an empty FixtureSet issues no remove and
\* no insert, reports success, and leaves every collection unchanged.
C37_ClearAndLoadOfNothing_AsStated ==
    \A i \in CallIds :
        LET call == calls[i]
        IN ClearAndLoadOfNothing(call) =>
              /\ call.removeIssued = {} /\ call.insertIssued = {}
              /\ docs = call.beforeDocs /\ exist = call.beforeExist
              /\ call.pc = "done" => call.outcome = Fulfilled

\* the documents of the batch F describes for collection c
FixtureDocs(F, c) == IF c \in KeySet(F) THEN SeqToSet(Items(DataOf(F, c))) ELSE {}

\* calls[j] was in flight when calls[i] was made, both are clearAndLoad calls
\* that name c, and c held none of their documents before the first of them
OverlappingPair(i, j, c) ==
    /\ i # j
    /\ calls[i].op = "clearAndLoad" /\ calls[j].op = "clearAndLoad"
    /\ calls[j].seq \in calls[i].inFlight
    /\ calls[i].resolution = "ok" /\ calls[j].resolution = "ok"
    /\ c \in KeySet(calls[i].data) /\ c \in KeySet(calls[j].data)
    /\ SeqToSet(calls[j].beforeDocs[c])
          \cap (FixtureDocs(calls[i].data, c) \cup FixtureDocs(calls[j].data, c)) = {}

\* C38 (as the code behaves): when two clearAndLoad calls on the same loader
\* that name the same collection c, whose name does not begin with
\* 'system.', overlap, in any interleaving, and both succeed, c afterwards
\* contains no document that was in c before the first of the two calls
\* started, and every document in c comes from the FixtureSet of one of the
\* two calls.
C38_OverlappingClearAndLoad ==
    \A i, j \in CallIds : \A c \in Names :
        (OverlappingPair(i, j, c) /\ ~IsSystem(c)
            /\ Succeeded(calls[i]) /\ Succeeded(calls[j])) =>
            \A k \in 1..Len(docs[c]) :
                /\ docs[c][k] \notin SeqToSet(calls[j].beforeDocs[c])
                /\ docs[c][k] \in FixtureDocs(calls[i].data, c) \cup FixtureDocs(calls[j].data, c)

\* two overlapping clearAndLoad calls have both removed from and inserted
\* into a collection that held a document, and it holds the documents of both
C38_Witness ==
    \E i, j \in CallIds : \E c \in Names :
        /\ OverlappingPair(i, j, c)
        /\ Succeeded(calls[i]) /\ Succeeded(calls[j])
        /\ calls[j].beforeDocs[c] # <<>>
        /\ c \in calls[i].removeOK /\ c \in calls[j].removeOK
        /\ calls[i].data # calls[j].data
        /\ Len(docs[c]) = 2

\* C38 (as stated): when two clearAndLoad calls on the same loader that name
\* the same collection c overlap and both succeed, c afterwards contains no
\* document that was in c before the first of the two calls started, and
\* every document in c comes from the FixtureSet of one of the two calls.
C38_OverlappingClearAndLoad_AsStated ==
    \A i, j \in CallIds : \A c \in Names :
        (OverlappingPair(i, j, c) /\ Succeeded(calls[i]) /\ Succeeded(calls[j])) =>
            \A k \in 1..Len(docs[c]) :
                /\ docs[c][k] \notin SeqToSet(calls[j].beforeDocs[c])
                /\ docs[c][k] \in FixtureDocs(calls[i].data, c) \cup FixtureDocs(calls[j].data, c)

====
